---- MODULE Spec2Model ----
(***************************************************************************)
(* Verification model of bhatti/mcp-a2a-go.                                *)
(*                                                                         *)
(* Spec       : the task lifecycle of the Task Service (a2a-server): POST  *)
(*              /tasks, DELETE /tasks/{id}, the background processor.      *)
(* SpecStream : the same with an SSE connection subscribed to the task.    *)
(* SpecBudget : the budget manager and the POST /tasks handlers.           *)
(* SpecMCP    : the Retrieval Service (mcp-server): optional               *)
(*              authentication, rate limiter, JSON-RPC dispatch and the    *)
(*              tools reading the tenant-scoped document store.            *)
(* SpecLimiter: the same pipeline with more requests and one method, for   *)
(*              the rate limiter.                                          *)
(* SpecStore  : the storage layer's methods called directly.               *)
(* SpecFanout : PublishEvent with several SSE connections on one task.     *)
(* SpecStreamLive, SpecLive : Spec and SpecStream parts under fairness.    *)
(* SpecAuth   : one request with any token through either authentication   *)
(*              middleware.                                                *)
(* SpecHealthy: SpecLimiter with a counter store that never fails.         *)
(* SpecManager: the budget manager's operations over time.                 *)
(* SpecResponse: every writer of a JSON-RPC response, with any error code. *)
(* SpecLimits : the calls that take a limit parameter.                     *)
(* SpecAccess : POST, DELETE and the processor, one memory access a step.  *)
(* SpecCreate : POST /tasks with any agent and capability.                 *)
(* SpecPublish: PublishEvent one channel a step, under the store's lock.   *)
(*                                                                         *)
(* Money is counted in cents (0.01 USD = 1).  Time is a logical clock; the *)
(* zero time.Time value is 0 and the clock starts at 1.                    *)
(* The task store keeps *protocol.Task pointers, and Get/List hand out the *)
(* same pointers, so a handler's local `task` IS the stored record: every  *)
(* field write done by a handler is a write to tasks[id].                  *)
(***************************************************************************)
EXTENDS Integers, Sequences, FiniteSets, TLC

\* ------------------------------------------------------------------ bounds
MaxCreate == 1      \* POST /tasks requests (each successful one mints a task id)
MaxProcs == 2       \* processTask goroutines alive at the same time
MaxCancels == 2     \* DELETE /tasks/{id} requests
MaxStreamCancels == 1 \* DELETE /tasks/{id} requests while an SSE stream is modelled
MaxSubs == 2        \* SSE connections
MaxStreamSubs == 1  \* SSE connections while the handlers that change the task are modelled
MaxPublish == 11    \* events passed to PublishEvent per task by direct calls
MaxClock == 2       \* last value of the logical clock
MaxLimit == 2       \* largest monthly limit (cents) given to SetBudget
MaxCost == 2        \* largest cost (cents) passed to CheckAndUpdate directly
MaxRefund == 1      \* largest negative cost (cents), and the lowest spend is its negation
MaxCycle == 1       \* ResetBudget calls per user
MaxMReq == 3        \* POST /mcp requests
MaxDispatch == 2    \* POST /mcp requests when every method and header is modelled
MaxAuthReq == 1     \* POST /mcp requests when every token is modelled
DefaultLimit == 2   \* RateLimiter.defaultLimit as configured (RATE_LIMIT)
TicksPerWindow == 2 \* clock ticks in one rate-limit window (time.Minute)
MaxNow == 3         \* last tick of the Retrieval Service clock
MaxRev == 1         \* UpdateDocument calls per row
MaxPublishers == 2  \* PublishEvent calls when its loop is modelled step by step

\* ------------------------------------------------------- program constants
EstimatedCost == 1  \* estimatedCost := 0.01, in cents
SubBuffer == 10     \* make(chan protocol.TaskEvent, 10)

CreateReqs == 1..MaxCreate
TaskIds == CreateReqs          \* request r mints the fresh uuid "r"
Procs == 1..MaxProcs
Cancels == 1..MaxCancels
StreamCancels == 1..MaxStreamCancels
Subs == 1..MaxSubs
StreamSubs == 1..MaxStreamSubs
Publishers == 1..MaxPublishers
Users == {"u0", "u1", "u2"}     \* u2 has no budget at startup
Agents == {"agent-1"}          \* cards registered at startup
AgentIds == Agents \cup {"ghost"}

\* the capabilities the registered card declares, and the names a caller sends
CardCapabilities == {"search_papers", "analyze_code", "summarize_document"}
RequestedCapabilities == {"search_papers", "search"}

MReqs == 1..MaxMReq
DispatchReqs == 1..MaxDispatch
AuthReqs == 1..MaxAuthReq
Tenants == {"A", "B"}
Windows == 0..(MaxNow \div TicksPerWindow)
DocIds == {"d1", "d2", "d3"}

TaskStatePending == "pending"
TaskStateRunning == "running"
TaskStateCompleted == "completed"
TaskStateFailed == "failed"
TaskStateCancelled == "cancelled"
TaskStates ==
  {TaskStatePending, TaskStateRunning, TaskStateCompleted, TaskStateFailed, TaskStateCancelled}

IsTerminal(ts) ==
  ts = TaskStateCompleted \/ ts = TaskStateFailed \/ ts = TaskStateCancelled

\* The transition table published in the architecture document.
validTransitions ==
  [s \in TaskStates |->
     CASE s = TaskStatePending -> {TaskStateRunning, TaskStateCancelled}
       [] s = TaskStateRunning -> {TaskStateCompleted, TaskStateFailed, TaskStateCancelled}
       [] OTHER -> {}]

VARIABLES
  clock,        \* time.Now()
  tasks,        \* MemoryStore.tasks: id -> task record, or NoTask
  idSucceeds,   \* task.ID[0]%10 != 0, fixed when the uuid is minted
  subscribers,  \* MemoryStore.subscribers: a map, id -> sequence of channels
  chanBuf,      \* contents of each subscriber channel
  chanClosed,   \* channel closed by Unsubscribe
  budgets,      \* BudgetManager.budgets
  creq,         \* POST /tasks handlers
  cancel,       \* DELETE /tasks/{id} handlers
  proc,         \* processTask goroutines
  sse,          \* GET /tasks/{id}/events handlers
  published,    \* history: events passed to PublishEvent, per task
  transitions,  \* history: state changes applied to the stored task, per task
  allowedSum,   \* history: sum of allowed CheckAndUpdate costs in the running cycle
  cycle         \* history: number of ResetBudget calls per user

taskVars ==
  <<clock, tasks, idSucceeds, subscribers, chanBuf, chanClosed, budgets, creq, cancel,
    proc, sse, published, transitions, allowedSum, cycle>>

VARIABLES
  mcpNow,       \* time.Now() of the Retrieval Service, in ticks
  dbUser,       \* database.Config.User, the account the pool connects with
  counters,     \* the counter store: <<tenant, window>> -> integer key with a TTL
  docs,         \* table documents
  mreq,         \* POST /mcp requests
  lastOp        \* history: rows returned and rows modified by the last storage operation

mcpVars == <<mcpNow, dbUser, counters, docs, mreq, lastOp>>

VARIABLES
  listed        \* history: the last call that took a limit parameter

limitVars == <<listed>>

VARIABLES
  rlocked,      \* MemoryStore.mu: the PublishEvent calls that hold the read lock
  pub           \* PublishEvent calls: position in the loop over the subscribers

lockVars == <<rlocked, pub>>

NoTask ==
  [agent_id |-> "", capability |-> "", state |-> "absent", result |-> "", error |-> "",
   created_at |-> 0, updated_at |-> 0, completed_at |-> 0]

Exists(t) == tasks[t].state # "absent"

\* protocol.NewTask
NewTask(agentID, capability, now) ==
  [agent_id |-> agentID, capability |-> capability, state |-> TaskStatePending,
   result |-> "", error |-> "", created_at |-> now, updated_at |-> now, completed_at |-> 0]

\* Task.UpdateState
UpdateState(task, state, now) ==
  [task EXCEPT !.state = state, !.updated_at = now]

\* Task.SetResult
SetResult(task, result, now) ==
  [task EXCEPT !.result = result, !.state = TaskStateCompleted,
               !.completed_at = now, !.updated_at = now]

\* Task.SetError
SetError(task, err, now) ==
  [task EXCEPT !.error = err, !.state = TaskStateFailed,
               !.completed_at = now, !.updated_at = now]

\* Task.Cancel
Cancel(task, reason, now) ==
  [task EXCEPT !.error = reason, !.state = TaskStateCancelled,
               !.completed_at = now, !.updated_at = now]

\* protocol.TaskEvent as the handlers build it: Timestamp is never assigned.
TaskEvent(t, state) == [task_id |-> t, state |-> state, timestamp |-> 0]

\* ------------------------------------------------------------ task store
Range(f) == {f[i] : i \in DOMAIN f}

\* s.subscribers[taskID]: the nil slice when the map has no such key
Lookup(subs, t) == IF t \in DOMAIN subs THEN subs[t] ELSE <<>>

\* mutant: the loop over the subscribers ends at the first full channel
PublishEvent_StopsAtFull(bufs, subs, event) ==
  LET list == Lookup(subs, event.task_id)
      reached(ch) == \E j \in DOMAIN list :
                       list[j] = ch /\ \A i \in 1..j : Len(bufs[list[i]]) < SubBuffer
  IN [ch \in DOMAIN bufs |-> IF reached(ch) THEN Append(bufs[ch], event) ELSE bufs[ch]]
\* MemoryStore.PublishEvent: non-blocking send to every subscriber of the task
PublishEvent(bufs, subs, event) ==
  [ch \in DOMAIN bufs |->
     IF ch \in Range(Lookup(subs, event.task_id)) /\ Len(bufs[ch]) < SubBuffer
       THEN Append(bufs[ch], event)
       ELSE bufs[ch]]

\* MemoryStore.Subscribe: a fresh channel appended to the task's list
Subscribe(subs, t, ch) ==
  [k \in DOMAIN subs \cup {t} |-> IF k = t THEN Append(Lookup(subs, t), ch) ELSE subs[k]]

\* mutant: the channel stays in the task's list
Unsubscribe_KeepsChannel(subs, t, ch) == subs
\* mutant: the key of a list that became empty stays in the map
Unsubscribe_KeepsEmptyList(subs, t, ch) ==
  [k \in DOMAIN subs |-> IF k = t THEN SelectSeq(subs[k], LAMBDA c : c # ch) ELSE subs[k]]
\* MemoryStore.Unsubscribe: remove the channel from the task's list, then
\* delete the map entry of an empty list
Unsubscribe(subs, t, ch) ==
  LET list == SelectSeq(Lookup(subs, t), LAMBDA c : c # ch)
      keys == IF list = <<>> THEN DOMAIN subs \ {t} ELSE DOMAIN subs
  IN [k \in keys |-> IF k = t THEN list ELSE subs[k]]

\* ---------------------------------------------------------- budget manager
NoBudget == [exists |-> FALSE, monthly_limit |-> 0, current_spend |-> 0, reset_at |-> 0]

\* time.Now().AddDate(0, 1, 0): one month, in ticks of the logical clock
MonthTicks == 1

\* mutant: the requested cost is left out of the comparison
CheckBudget_IgnoresCost(b, costUSD) == b.current_spend <= b.monthly_limit

\* mutant: a cost that reaches the limit exactly is refused
CheckBudget_Strict(b, costUSD) == b.current_spend + costUSD < b.monthly_limit

\* Budget.CheckBudget
CheckBudget(b, costUSD) == b.current_spend + costUSD <= b.monthly_limit

\* Budget.UpdateSpend
UpdateSpend(b, costUSD) == [b EXCEPT !.current_spend = @ + costUSD]

\* mutant: the spend is updated before the check, and stays updated
CheckAndUpdate_ChargesWhenDenied(bm, userID, costUSD) ==
  IF ~bm[userID].exists
    THEN [allowed |-> FALSE, err |-> TRUE, budgets |-> bm]
    ELSE [allowed |-> CheckBudget(bm[userID], costUSD), err |-> FALSE,
          budgets |-> [bm EXCEPT ![userID] = UpdateSpend(@, costUSD)]]

\* BudgetManager.CheckAndUpdate, the whole critical section under bm.mu
CheckAndUpdate(bm, userID, costUSD) ==
  IF ~bm[userID].exists
    THEN [allowed |-> FALSE, err |-> TRUE, budgets |-> bm]
    ELSE IF ~CheckBudget(bm[userID], costUSD)
      THEN [allowed |-> FALSE, err |-> FALSE, budgets |-> bm]
      ELSE [allowed |-> TRUE, err |-> FALSE,
            budgets |-> [bm EXCEPT ![userID] = UpdateSpend(@, costUSD)]]

\* setupDemoBudgets: the budgets main installs before the server starts
\* with the limits scaled to cents the model can count (u0 has nothing to spend,
\* u1 has room for one task, u2 has no budget)
StartupBudgets ==
  [u \in Users |->
     CASE u = "u0" -> [exists |-> TRUE, monthly_limit |-> 0, current_spend |-> 0,
                       reset_at |-> 1 + MonthTicks]
       [] u = "u1" -> [exists |-> TRUE, monthly_limit |-> EstimatedCost, current_spend |-> 0,
                       reset_at |-> 1 + MonthTicks]
       [] OTHER -> NoBudget]

\* BudgetManager.SetBudget
SetBudget(u, limit) ==
  /\ budgets' = [budgets EXCEPT ![u] =
                   [exists |-> TRUE, monthly_limit |-> limit, current_spend |-> 0,
                    reset_at |-> clock + MonthTicks]]
  /\ allowedSum' = [allowedSum EXCEPT ![u] = 0]
  /\ UNCHANGED <<mcpVars, limitVars, lockVars>>
  /\ UNCHANGED <<clock, tasks, idSucceeds, subscribers, chanBuf, chanClosed, creq, cancel,
                 proc, sse, published, transitions, cycle>>

\* BudgetManager.ResetBudget (the not-found branch changes nothing)
ResetBudget(u) ==
  /\ budgets[u].exists
  /\ cycle[u] < MaxCycle
  /\ budgets' = [budgets EXCEPT ![u].current_spend = 0, ![u].reset_at = clock + MonthTicks]
  /\ allowedSum' = [allowedSum EXCEPT ![u] = 0]
  /\ cycle' = [cycle EXCEPT ![u] = @ + 1]
  /\ UNCHANGED <<mcpVars, limitVars, lockVars>>
  /\ UNCHANGED <<clock, tasks, idSucceeds, subscribers, chanBuf, chanClosed, creq, cancel,
                 proc, sse, published, transitions>>

\* the costUSD values callers pass: any float64, negative ones included
Costs == (0 - MaxRefund)..MaxCost

\* A caller of BudgetManager.CheckAndUpdate other than POST /tasks
CheckAndUpdateCall(u, cost) ==
  LET r == CheckAndUpdate(budgets, u, cost) IN
  /\ budgets[u].current_spend + cost >= 0 - MaxRefund
  /\ budgets' = r.budgets
  /\ allowedSum' = [allowedSum EXCEPT ![u] = IF r.allowed THEN @ + cost ELSE @]
  /\ UNCHANGED <<mcpVars, limitVars, lockVars>>
  /\ UNCHANGED <<clock, tasks, idSucceeds, subscribers, chanBuf, chanClosed, creq, cancel,
                 proc, sse, published, transitions, cycle>>

\* ------------------------------------------------------------- POST /tasks
IdleCreate == [pc |-> "idle", user |-> "", agent_id |-> "", capability |-> "", status |-> 0]

\* mutant: the task record is stored before the budget check is honoured
handleCreateTask_Reserve_CreatesFirst(r, user, agentID, capability, bodyOK) ==
  LET b == CheckAndUpdate(budgets, user, EstimatedCost)
      req == [IdleCreate EXCEPT !.user = user, !.agent_id = agentID,
                                !.capability = capability]
  IN
  /\ creq[r].pc = "idle"
  /\ bodyOK /\ agentID \in Agents /\ ~b.err
  /\ tasks' = [tasks EXCEPT ![r] = NewTask(agentID, capability, clock)]
  /\ IF ~b.allowed
       THEN /\ creq' = [creq EXCEPT ![r] = [IdleCreate EXCEPT !.pc = "done", !.status = 402]]
            /\ UNCHANGED <<budgets, allowedSum>>
       ELSE /\ creq' = [creq EXCEPT ![r] = [IdleCreate EXCEPT !.pc = "done", !.status = 201]]
            /\ budgets' = b.budgets
            /\ allowedSum' = [allowedSum EXCEPT ![user] = @ + EstimatedCost]
  /\ UNCHANGED <<mcpVars, limitVars, lockVars>>
  /\ UNCHANGED <<clock, idSucceeds, subscribers, chanBuf, chanClosed, cancel,
                 proc, sse, published, transitions, cycle>>

\* handleCreateTask up to the budget check: decode the body, look the agent
\* up (the agent store never changes after startup), reserve the budget.
handleCreateTask_Reserve(r, user, agentID, capability, bodyOK) ==
  LET b == CheckAndUpdate(budgets, user, EstimatedCost)
      req == [IdleCreate EXCEPT !.user = user, !.agent_id = agentID,
                                !.capability = capability]
  IN
  /\ creq[r].pc = "idle"
  /\ IF ~bodyOK
       THEN /\ creq' = [creq EXCEPT ![r] = [IdleCreate EXCEPT !.pc = "done", !.status = 400]]
            /\ UNCHANGED <<budgets, allowedSum>>
     ELSE IF agentID \notin Agents
       THEN /\ creq' = [creq EXCEPT ![r] = [IdleCreate EXCEPT !.pc = "done", !.status = 404]]
            /\ UNCHANGED <<budgets, allowedSum>>
     ELSE IF b.err
       THEN /\ creq' = [creq EXCEPT ![r] = [IdleCreate EXCEPT !.pc = "done", !.status = 400]]
            /\ UNCHANGED <<budgets, allowedSum>>
     ELSE IF ~b.allowed
       THEN /\ creq' = [creq EXCEPT ![r] = [IdleCreate EXCEPT !.pc = "done", !.status = 402]]
            /\ UNCHANGED <<budgets, allowedSum>>
     ELSE /\ creq' = [creq EXCEPT ![r] = [req EXCEPT !.pc = "create"]]
          /\ budgets' = b.budgets
          /\ allowedSum' = [allowedSum EXCEPT ![user] = @ + EstimatedCost]
  /\ UNCHANGED <<mcpVars, limitVars, lockVars>>
  /\ UNCHANGED <<clock, tasks, idSucceeds, subscribers, chanBuf, chanClosed, cancel,
                 proc, sse, published, transitions, cycle>>

\* handleCreateTask after the budget check: NewTask, taskStore.Create, 201
handleCreateTask_Create(r, succ) ==
  /\ creq[r].pc = "create"
  /\ ~Exists(r)
  /\ tasks' = [tasks EXCEPT ![r] = NewTask(creq[r].agent_id, creq[r].capability, clock)]
  /\ idSucceeds' = [idSucceeds EXCEPT ![r] = succ]
  /\ creq' = [creq EXCEPT ![r] = [IdleCreate EXCEPT !.pc = "done", !.status = 201]]
  /\ UNCHANGED <<mcpVars, limitVars, lockVars>>
  /\ UNCHANGED <<clock, subscribers, chanBuf, chanClosed, budgets, cancel,
                 proc, sse, published, transitions, allowedSum, cycle>>

\* ----------------------------------------------------- DELETE /tasks/{id}
IdleCancel == [pc |-> "idle", task |-> 0, status |-> 0]

\* handleCancelTask: taskStore.Get and the terminal-state check
handleCancelTask_Get(c, t) ==
  /\ cancel[c].pc = "idle"
  /\ cancel' = [cancel EXCEPT ![c] =
       IF ~Exists(t) THEN [pc |-> "done", task |-> t, status |-> 404]
       ELSE IF IsTerminal(tasks[t].state) THEN [pc |-> "done", task |-> t, status |-> 409]
       ELSE [pc |-> "cancel", task |-> t, status |-> 0]]
  /\ UNCHANGED <<mcpVars, limitVars, lockVars>>
  /\ UNCHANGED <<clock, tasks, idSucceeds, subscribers, chanBuf, chanClosed, budgets, creq,
                 proc, sse, published, transitions, allowedSum, cycle>>

\* handleCancelTask: task.Cancel writes the stored record, then
\* taskStore.Update stores the same pointer again (the task is never
\* deleted, so Update cannot fail).
handleCancelTask_Cancel(c) ==
  LET t == cancel[c].task IN
  /\ cancel[c].pc = "cancel"
  /\ tasks' = [tasks EXCEPT ![t] = Cancel(@, "Cancelled by user", clock)]
  /\ transitions' = [transitions EXCEPT ![t] =
                       Append(@, <<tasks[t].state, TaskStateCancelled>>)]
  /\ cancel' = [cancel EXCEPT ![c].pc = "publish"]
  /\ UNCHANGED <<mcpVars, limitVars, lockVars>>
  /\ UNCHANGED <<clock, idSucceeds, subscribers, chanBuf, chanClosed, budgets, creq,
                 proc, sse, published, allowedSum, cycle>>

\* handleCancelTask: PublishEvent(cancelled) and the 200 response
handleCancelTask_Publish(c) ==
  LET e == TaskEvent(cancel[c].task, TaskStateCancelled) IN
  /\ cancel[c].pc = "publish"
  /\ chanBuf' = PublishEvent(chanBuf, subscribers, e)
  /\ published' = [published EXCEPT ![e.task_id] = Append(@, e)]
  /\ cancel' = [cancel EXCEPT ![c].pc = "done", ![c].status = 200]
  /\ UNCHANGED <<mcpVars, limitVars, lockVars>>
  /\ UNCHANGED <<clock, tasks, idSucceeds, subscribers, chanClosed, budgets, creq,
                 proc, sse, transitions, allowedSum, cycle>>

\* ------------------------------------------------------- task processor
IdleProc == [pc |-> "idle", task |-> 0]

FreeProcs(pp) == {p \in Procs : pp[p].pc \in {"idle", "done"}}

RECURSIVE Spawn(_, _)
\* the `go p.processTask(ctx, task)` statements of one scan
Spawn(pp, pending) ==
  IF pending = {} THEN pp
  ELSE LET t == CHOOSE x \in pending : \A y \in pending : x <= y
           p == CHOOSE x \in FreeProcs(pp) : \A y \in FreeProcs(pp) : x <= y
       IN Spawn([pp EXCEPT ![p] = [pc |-> "start", task |-> t]], pending \ {t})

\* TaskProcessor.processPendingTasks: one tick of the scan loop
processPendingTasks ==
  LET pending == {t \in TaskIds : tasks[t].state = TaskStatePending} IN
  /\ pending # {}
  /\ Cardinality(pending) <= Cardinality(FreeProcs(proc))
  /\ proc' = Spawn(proc, pending)
  /\ UNCHANGED <<mcpVars, limitVars, lockVars>>
  /\ UNCHANGED <<clock, tasks, idSucceeds, subscribers, chanBuf, chanClosed, budgets, creq,
                 cancel, sse, published, transitions, allowedSum, cycle>>

\* processTask: task.UpdateState(running) and taskStore.Update
processTask_Running(p) ==
  LET t == proc[p].task IN
  /\ proc[p].pc = "start"
  /\ tasks' = [tasks EXCEPT ![t] = UpdateState(@, TaskStateRunning, clock)]
  /\ transitions' = [transitions EXCEPT ![t] =
                       Append(@, <<tasks[t].state, TaskStateRunning>>)]
  /\ proc' = [proc EXCEPT ![p].pc = "publish_running"]
  /\ UNCHANGED <<mcpVars, limitVars, lockVars>>
  /\ UNCHANGED <<clock, idSucceeds, subscribers, chanBuf, chanClosed, budgets, creq,
                 cancel, sse, published, allowedSum, cycle>>

\* processTask: PublishEvent(running), then the simulated execution starts
processTask_PublishRunning(p) ==
  LET e == TaskEvent(proc[p].task, TaskStateRunning) IN
  /\ proc[p].pc = "publish_running"
  /\ chanBuf' = PublishEvent(chanBuf, subscribers, e)
  /\ published' = [published EXCEPT ![e.task_id] = Append(@, e)]
  /\ proc' = [proc EXCEPT ![p].pc = "execute"]
  /\ UNCHANGED <<mcpVars, limitVars, lockVars>>
  /\ UNCHANGED <<clock, tasks, idSucceeds, subscribers, chanClosed, budgets, creq,
                 cancel, sse, transitions, allowedSum, cycle>>

\* mutant: the failure branch returns without SetError
processTask_Finish_DropsFailure(p) ==
  LET t == proc[p].task IN
  /\ proc[p].pc = "execute"
  /\ tasks' = [tasks EXCEPT ![t] = IF idSucceeds[t] THEN SetResult(@, "success", clock) ELSE @]
  /\ transitions' = [transitions EXCEPT ![t] =
       IF idSucceeds[t] THEN Append(@, <<tasks[t].state, TaskStateCompleted>>) ELSE @]
  /\ proc' = [proc EXCEPT ![p].pc = IF idSucceeds[t] THEN "publish_final" ELSE "done"]
  /\ UNCHANGED <<mcpVars, limitVars, lockVars>>
  /\ UNCHANGED <<clock, idSucceeds, subscribers, chanBuf, chanClosed, budgets, creq,
                 cancel, sse, published, allowedSum, cycle>>

\* processTask after the sleep: SetResult or SetError, then taskStore.Update
processTask_Finish(p) ==
  LET t == proc[p].task
      final == IF idSucceeds[t] THEN TaskStateCompleted ELSE TaskStateFailed
  IN
  /\ proc[p].pc = "execute"
  /\ tasks' = [tasks EXCEPT ![t] =
       IF idSucceeds[t] THEN SetResult(@, "success", clock)
                        ELSE SetError(@, "Simulated task failure", clock)]
  /\ transitions' = [transitions EXCEPT ![t] = Append(@, <<tasks[t].state, final>>)]
  /\ proc' = [proc EXCEPT ![p].pc = "publish_final"]
  /\ UNCHANGED <<mcpVars, limitVars, lockVars>>
  /\ UNCHANGED <<clock, idSucceeds, subscribers, chanBuf, chanClosed, budgets, creq,
                 cancel, sse, published, allowedSum, cycle>>

\* processTask: PublishEvent(completed | failed)
processTask_PublishFinal(p) ==
  LET t == proc[p].task
      e == TaskEvent(t, IF idSucceeds[t] THEN TaskStateCompleted ELSE TaskStateFailed)
  IN
  /\ proc[p].pc = "publish_final"
  /\ chanBuf' = PublishEvent(chanBuf, subscribers, e)
  /\ published' = [published EXCEPT ![t] = Append(@, e)]
  /\ proc' = [proc EXCEPT ![p].pc = "done"]
  /\ UNCHANGED <<mcpVars, limitVars, lockVars>>
  /\ UNCHANGED <<clock, tasks, idSucceeds, subscribers, chanClosed, budgets, creq,
                 cancel, sse, transitions, allowedSum, cycle>>

\* ------------------------------- the handlers, one memory access a step
\* MemoryStore.Get returns the *protocol.Task the map holds, so the methods
\* of Task write the stored record at once, with no lock held;
\* MemoryStore.Update then takes s.mu.Lock() and stores the same pointer.

\* MemoryStore.Update under s.mu.Lock(): s.tasks[task.ID] = task, where task
\* is the pointer the map already holds
MemoryStore_Update(store, t) == [store EXCEPT ![t] = store[t]]

\* handleCancelTask: task.Cancel on the pointer Get returned
handleCancelTask_Write(c) ==
  LET t == cancel[c].task IN
  /\ cancel[c].pc = "cancel"
  /\ tasks' = [tasks EXCEPT ![t] = Cancel(@, "Cancelled by user", clock)]
  /\ transitions' = [transitions EXCEPT ![t] =
                       Append(@, <<tasks[t].state, TaskStateCancelled>>)]
  /\ cancel' = [cancel EXCEPT ![c].pc = "update"]
  /\ UNCHANGED <<mcpVars, limitVars, lockVars>>
  /\ UNCHANGED <<clock, idSucceeds, subscribers, chanBuf, chanClosed, budgets, creq,
                 proc, sse, published, allowedSum, cycle>>

\* handleCancelTask: taskStore.Update
handleCancelTask_Update(c) ==
  /\ cancel[c].pc = "update"
  /\ tasks' = MemoryStore_Update(tasks, cancel[c].task)
  /\ cancel' = [cancel EXCEPT ![c].pc = "publish"]
  /\ UNCHANGED <<mcpVars, limitVars, lockVars>>
  /\ UNCHANGED <<clock, idSucceeds, subscribers, chanBuf, chanClosed, budgets, creq,
                 proc, sse, published, transitions, allowedSum, cycle>>

\* processTask: task.UpdateState(running) on the pointer List returned
processTask_WriteRunning(p) ==
  LET t == proc[p].task IN
  /\ proc[p].pc = "start"
  /\ tasks' = [tasks EXCEPT ![t] = UpdateState(@, TaskStateRunning, clock)]
  /\ transitions' = [transitions EXCEPT ![t] =
                       Append(@, <<tasks[t].state, TaskStateRunning>>)]
  /\ proc' = [proc EXCEPT ![p].pc = "update_running"]
  /\ UNCHANGED <<mcpVars, limitVars, lockVars>>
  /\ UNCHANGED <<clock, idSucceeds, subscribers, chanBuf, chanClosed, budgets, creq,
                 cancel, sse, published, allowedSum, cycle>>

\* processTask: the first taskStore.Update
processTask_UpdateRunning(p) ==
  /\ proc[p].pc = "update_running"
  /\ tasks' = MemoryStore_Update(tasks, proc[p].task)
  /\ proc' = [proc EXCEPT ![p].pc = "publish_running"]
  /\ UNCHANGED <<mcpVars, limitVars, lockVars>>
  /\ UNCHANGED <<clock, idSucceeds, subscribers, chanBuf, chanClosed, budgets, creq,
                 cancel, sse, published, transitions, allowedSum, cycle>>

\* processTask after the sleep: task.SetResult or task.SetError
processTask_WriteFinal(p) ==
  LET t == proc[p].task
      final == IF idSucceeds[t] THEN TaskStateCompleted ELSE TaskStateFailed
  IN
  /\ proc[p].pc = "execute"
  /\ tasks' = [tasks EXCEPT ![t] =
       IF idSucceeds[t] THEN SetResult(@, "success", clock)
                        ELSE SetError(@, "Simulated task failure", clock)]
  /\ transitions' = [transitions EXCEPT ![t] = Append(@, <<tasks[t].state, final>>)]
  /\ proc' = [proc EXCEPT ![p].pc = "update_final"]
  /\ UNCHANGED <<mcpVars, limitVars, lockVars>>
  /\ UNCHANGED <<clock, idSucceeds, subscribers, chanBuf, chanClosed, budgets, creq,
                 cancel, sse, published, allowedSum, cycle>>

\* processTask: the second taskStore.Update
processTask_UpdateFinal(p) ==
  /\ proc[p].pc = "update_final"
  /\ tasks' = MemoryStore_Update(tasks, proc[p].task)
  /\ proc' = [proc EXCEPT ![p].pc = "publish_final"]
  /\ UNCHANGED <<mcpVars, limitVars, lockVars>>
  /\ UNCHANGED <<clock, idSucceeds, subscribers, chanBuf, chanClosed, budgets, creq,
                 cancel, sse, published, transitions, allowedSum, cycle>>

\* ------------------------------------------------ GET /tasks/{id}/events
\* from_start (history): the subscription was made before the task's first
\* state transition; joined_at (history): the number of events of the task
\* published before the subscription; ctx_done: r.Context() has been cancelled
IdleSSE ==
  [pc |-> "idle", task |-> 0, flusher |-> TRUE, received |-> <<>>, status |-> 0,
   from_start |-> FALSE, joined_at |-> 0, ctx_done |-> FALSE]

\* handleTaskEvents: taskStore.Get, the SSE headers, taskStore.Subscribe
handleTaskEvents_Subscribe(s, t, flusher) ==
  /\ sse[s].pc = "idle"
  /\ IF ~Exists(t)
       THEN /\ sse' = [sse EXCEPT ![s] = [IdleSSE EXCEPT !.pc = "done", !.task = t,
                                                         !.flusher = flusher, !.status = 404]]
            /\ UNCHANGED subscribers
       ELSE /\ sse' = [sse EXCEPT ![s] = [IdleSSE EXCEPT !.pc = "flusher", !.task = t,
                                                         !.flusher = flusher,
                                                         !.from_start = (transitions[t] = <<>>),
                                                         !.joined_at = Len(published[t])]]
            /\ subscribers' = Subscribe(subscribers, t, s)
  /\ UNCHANGED <<mcpVars, limitVars, lockVars>>
  /\ UNCHANGED <<clock, tasks, idSucceeds, chanBuf, chanClosed, budgets, creq, cancel,
                 proc, published, transitions, allowedSum, cycle>>

\* handleTaskEvents: the w.(http.Flusher) assertion
handleTaskEvents_Flusher(s) ==
  /\ sse[s].pc = "flusher"
  /\ sse' = [sse EXCEPT ![s] =
       IF sse[s].flusher THEN [@ EXCEPT !.pc = "loop", !.status = 200]
                         ELSE [@ EXCEPT !.pc = "unsubscribe", !.status = 500]]
  /\ UNCHANGED <<mcpVars, limitVars, lockVars>>
  /\ UNCHANGED <<clock, tasks, idSucceeds, subscribers, chanBuf, chanClosed, budgets, creq,
                 cancel, proc, published, transitions, allowedSum, cycle>>

\* handleTaskEvents: `case event, ok := <-eventCh` with an event waiting
handleTaskEvents_Receive(s) ==
  /\ sse[s].pc = "loop"
  /\ chanBuf[s] # <<>>
  /\ sse' = [sse EXCEPT ![s].received = Append(@, Head(chanBuf[s]).state)]
  /\ chanBuf' = [chanBuf EXCEPT ![s] = Tail(@)]
  /\ UNCHANGED <<mcpVars, limitVars, lockVars>>
  /\ UNCHANGED <<clock, tasks, idSucceeds, subscribers, chanClosed, budgets, creq,
                 cancel, proc, published, transitions, allowedSum, cycle>>

\* the client closes the connection: net/http cancels the request's context
ClientDisconnect(s) ==
  /\ sse[s].pc \in {"flusher", "loop"}
  /\ ~sse[s].ctx_done
  /\ sse' = [sse EXCEPT ![s].ctx_done = TRUE]
  /\ UNCHANGED <<mcpVars, limitVars, lockVars>>
  /\ UNCHANGED <<clock, tasks, idSucceeds, subscribers, chanBuf, chanClosed, budgets, creq,
                 cancel, proc, published, transitions, allowedSum, cycle>>

\* handleTaskEvents: `case <-ctx.Done()`, the client went away
handleTaskEvents_CtxDone(s) ==
  /\ sse[s].pc = "loop"
  /\ sse[s].ctx_done
  /\ sse' = [sse EXCEPT ![s].pc = "unsubscribe"]
  /\ UNCHANGED <<mcpVars, limitVars, lockVars>>
  /\ UNCHANGED <<clock, tasks, idSucceeds, subscribers, chanBuf, chanClosed, budgets, creq,
                 cancel, proc, published, transitions, allowedSum, cycle>>

\* handleTaskEvents: the deferred taskStore.Unsubscribe
handleTaskEvents_Unsubscribe(s) ==
  /\ sse[s].pc = "unsubscribe"
  /\ subscribers' = Unsubscribe(subscribers, sse[s].task, s)
  /\ chanClosed' = [chanClosed EXCEPT ![s] = TRUE]
  /\ sse' = [sse EXCEPT ![s].pc = "done"]
  /\ UNCHANGED <<mcpVars, limitVars, lockVars>>
  /\ UNCHANGED <<clock, tasks, idSucceeds, chanBuf, budgets, creq, cancel,
                 proc, published, transitions, allowedSum, cycle>>

\* MemoryStore.PublishEvent called with an event of an existing task
PublishEventCall(t, state) ==
  /\ Exists(t)
  /\ Len(published[t]) < MaxPublish
  /\ chanBuf' = PublishEvent(chanBuf, subscribers, TaskEvent(t, state))
  /\ published' = [published EXCEPT ![t] = Append(@, TaskEvent(t, state))]
  /\ UNCHANGED <<mcpVars, limitVars, lockVars>>
  /\ UNCHANGED <<clock, tasks, idSucceeds, subscribers, chanClosed, budgets, creq, cancel,
                 proc, sse, transitions, allowedSum, cycle>>

\* ------------------------------------ PublishEvent, one channel a step
\* list: the subscribers still to be sent to; sent_closed (history): a send
\* was executed on a closed channel, which panics
IdlePub == [pc |-> "idle", task |-> 0, list |-> <<>>, sent_closed |-> FALSE]

\* a writer takes s.mu.Lock() only while no PublishEvent holds the read lock
WriteLockFree == rlocked = {}

\* MemoryStore.Subscribe under s.mu.Lock(), as handleTaskEvents calls it
handleTaskEvents_SubscribeLocked(s, t) ==
  WriteLockFree /\ handleTaskEvents_Subscribe(s, t, TRUE)

\* MemoryStore.Unsubscribe under s.mu.Lock(), as handleTaskEvents defers it
handleTaskEvents_UnsubscribeLocked(s) ==
  WriteLockFree /\ handleTaskEvents_Unsubscribe(s)

\* mutant: PublishEvent copies the list and releases the lock before it sends
PublishEvent_RLock_ReleasesEarly(q, t) ==
  /\ pub[q].pc = "idle"
  /\ Exists(t)
  /\ pub' = [pub EXCEPT ![q] = [IdlePub EXCEPT !.pc = "send", !.task = t,
                                               !.list = Lookup(subscribers, t)]]
  /\ published' = [published EXCEPT ![t] = Append(@, TaskEvent(t, TaskStateRunning))]
  /\ UNCHANGED rlocked
  /\ UNCHANGED <<mcpVars, limitVars>>
  /\ UNCHANGED <<clock, tasks, idSucceeds, subscribers, chanBuf, chanClosed, budgets, creq,
                 cancel, proc, sse, transitions, allowedSum, cycle>>

\* PublishEvent: s.mu.RLock() and subscribers := s.subscribers[event.TaskID]
PublishEvent_RLock(q, t) ==
  /\ pub[q].pc = "idle"
  /\ Exists(t)
  /\ rlocked' = rlocked \cup {q}
  /\ pub' = [pub EXCEPT ![q] = [IdlePub EXCEPT !.pc = "send", !.task = t,
                                               !.list = Lookup(subscribers, t)]]
  /\ published' = [published EXCEPT ![t] = Append(@, TaskEvent(t, TaskStateRunning))]
  /\ UNCHANGED <<mcpVars, limitVars>>
  /\ UNCHANGED <<clock, tasks, idSucceeds, subscribers, chanBuf, chanClosed, budgets, creq,
                 cancel, proc, sse, transitions, allowedSum, cycle>>

\* PublishEvent: one iteration of the loop, `select { case ch <- event: default: }`;
\* a send on a closed channel panics and the deferred RUnlock runs
PublishEvent_Send(q) ==
  LET ch == Head(pub[q].list) IN
  /\ pub[q].pc = "send"
  /\ pub[q].list # <<>>
  /\ IF chanClosed[ch]
       THEN /\ pub' = [pub EXCEPT ![q].pc = "done", ![q].sent_closed = TRUE]
            /\ rlocked' = rlocked \ {q}
            /\ UNCHANGED chanBuf
       ELSE /\ pub' = [pub EXCEPT ![q].list = Tail(@)]
            /\ chanBuf' = [chanBuf EXCEPT ![ch] =
                 IF Len(@) < SubBuffer THEN Append(@, TaskEvent(pub[q].task, TaskStateRunning))
                                       ELSE @]
            /\ UNCHANGED rlocked
  /\ UNCHANGED <<mcpVars, limitVars>>
  /\ UNCHANGED <<clock, tasks, idSucceeds, subscribers, chanClosed, budgets, creq,
                 cancel, proc, sse, published, transitions, allowedSum, cycle>>

\* PublishEvent: the loop is over, the deferred s.mu.RUnlock()
PublishEvent_RUnlock(q) ==
  /\ pub[q].pc = "send"
  /\ pub[q].list = <<>>
  /\ pub' = [pub EXCEPT ![q].pc = "done"]
  /\ rlocked' = rlocked \ {q}
  /\ UNCHANGED <<mcpVars, limitVars>>
  /\ UNCHANGED <<clock, tasks, idSucceeds, subscribers, chanBuf, chanClosed, budgets, creq,
                 cancel, proc, sse, published, transitions, allowedSum, cycle>>

\* time passes
Tick ==
  /\ clock < MaxClock
  /\ clock' = clock + 1
  /\ UNCHANGED <<mcpVars, limitVars, lockVars>>
  /\ UNCHANGED <<tasks, idSucceeds, subscribers, chanBuf, chanClosed, budgets, creq, cancel,
                 proc, sse, published, transitions, allowedSum, cycle>>

\* ======================================================================
\* Retrieval Service (mcp-server)
\* ======================================================================

\* JSON-RPC and MCP error codes
ParseError == -32700
InvalidRequest == -32600
MethodNotFound == -32601
InvalidParams == -32602
InternalError == -32603
ServerError == -32000
AuthenticationRequired == -32001
AuthorizationFailed == -32002
RateLimitExceeded == -32003
ResourceNotFound == -32004
ValidationError == -32005
NoError == 0                   \* response.Error == nil

\* codes that the protocol package does not define
UndefinedCodes == {-32099, -1, 404}

ProtocolCodes ==
  {ParseError, InvalidRequest, MethodNotFound, InvalidParams, InternalError, ServerError}
ApplicationCodes ==
  {AuthenticationRequired, AuthorizationFailed, RateLimitExceeded, ResourceNotFound,
   ValidationError}
Codes == {NoError} \cup ProtocolCodes \cup ApplicationCodes \cup UndefinedCodes

MethodInitialize == "initialize"
MethodToolsList == "tools/list"
MethodToolsCall == "tools/call"
Methods == {MethodInitialize, MethodToolsList, MethodToolsCall, "resources/list"}

\* tools registered at startup, and a name that is not registered
Tools == {"search_documents", "retrieve_document", "list_documents", "hybrid_search"}
ToolNames == Tools \cup {"no_such_tool"}

Issuer == "mcp-server-demo"
Audience == "mcp-server"

\* An Authorization header: absent, or a JWT described by what ValidateToken reads.
NoHeader ==
  [present |-> FALSE, alg |-> "", sig_ok |-> FALSE, iss |-> "", aud |-> {},
   has_exp |-> FALSE, exp |-> 0, tenant_id |-> ""]

SignedToken(tenantID) ==
  [present |-> TRUE, alg |-> "RS256", sig_ok |-> TRUE, iss |-> Issuer, aud |-> {Audience},
   has_exp |-> TRUE, exp |-> MaxNow + 1, tenant_id |-> tenantID]

AuthHeaders ==
  {NoHeader, SignedToken("A"), SignedToken("B"), [SignedToken("A") EXCEPT !.sig_ok = FALSE]}

\* the algorithms whose jwt.SigningMethod is a *jwt.SigningMethodRSA
RSAMethods == {"RS256", "RS384", "RS512"}

\* the headers ValidateToken is handed: every combination of algorithm,
\* signature, issuer, audience list, expiry and tenant_id claim
Tokens ==
  [present : {TRUE}, alg : {"RS256", "RS384", "HS256"}, sig_ok : BOOLEAN,
   iss : {Issuer, "other-issuer"},
   aud : {{Audience}, {"other-audience"}, {"other-audience", Audience}},
   has_exp : {TRUE}, exp : {1, MaxNow + 1}, tenant_id : {"", "A"}]
  \cup
  [present : {TRUE}, alg : {"RS256", "HS256"}, sig_ok : BOOLEAN, iss : {Issuer},
   aud : {{Audience}}, has_exp : {FALSE}, exp : {0}, tenant_id : {"A"}]

\* mutant: the key function hands the key to any signing method
ValidateToken_AnyMethod(tok, t) ==
  LET parsed == tok.sig_ok /\ (tok.has_exp => ~(tok.exp < t))
      ok == /\ parsed
            /\ tok.iss = Issuer
            /\ Audience \in tok.aud
            /\ ~(tok.has_exp /\ tok.exp < t)
            /\ tok.tenant_id # ""
  IN [ok |-> ok, tenant_id |-> IF ok THEN tok.tenant_id ELSE ""]

\* JWTValidator.ValidateToken
ValidateToken(tok, t) ==
  LET parsed == tok.alg \in RSAMethods /\ tok.sig_ok /\ (tok.has_exp => ~(tok.exp < t))
      ok == /\ parsed
            /\ tok.iss = Issuer
            /\ Audience \in tok.aud
            /\ ~(tok.has_exp /\ tok.exp < t)
            /\ tok.tenant_id # ""
  IN [ok |-> ok, tenant_id |-> IF ok THEN tok.tenant_id ELSE ""]

\* mutant: sendResponse answers an internal error with 500
HTTPStatus_InternalIs500(code) ==
  CASE code = NoError -> 200
    [] code \in {AuthenticationRequired, AuthorizationFailed} -> 401
    [] code = RateLimitExceeded -> 429
    [] code = ResourceNotFound -> 404
    [] code = ValidationError -> 400
    [] code \in ProtocolCodes \ {InternalError} -> 200
    [] OTHER -> 500

\* MCPHandler.sendResponse: the HTTP status chosen for a JSON-RPC error code
HTTPStatus(code) ==
  CASE code = NoError -> 200
    [] code \in {AuthenticationRequired, AuthorizationFailed} -> 401
    [] code = RateLimitExceeded -> 429
    [] code = ResourceNotFound -> 404
    [] code = ValidationError -> 400
    [] code \in {ParseError, InvalidRequest, MethodNotFound, InvalidParams, InternalError,
                 ServerError} -> 200
    [] OTHER -> 500

\* ---------------------------------------------------------- counter store
\* An integer key with an optional TTL.  count = 0 is "no such key"; gen counts
\* how many times the key has been created.
NoCounter == [count |-> 0, has_ttl |-> FALSE, expire_at |-> 0, gen |-> 0]

\* INCR: creates the key at 1 when it does not exist
Incr(c) ==
  IF c.count = 0
    THEN [count |-> 1, has_ttl |-> FALSE, expire_at |-> 0, gen |-> c.gen + 1]
    ELSE [c EXCEPT !.count = @ + 1]

\* EXPIRE: sets the time to live of an existing key
Expire(c, t, ttl) ==
  IF c.count = 0 THEN c ELSE [c EXCEPT !.has_ttl = TRUE, !.expire_at = t + ttl]

\* the store drops a key whose time to live has run out
Purge(c, t) ==
  IF c.count > 0 /\ c.has_ttl /\ c.expire_at <= t
    THEN [count |-> 0, has_ttl |-> FALSE, expire_at |-> 0, gen |-> c.gen]
    ELSE c

\* checkLimit: return count <= int64(rl.defaultLimit)
WithinLimit_OffByOne(count, limit) == count <= limit + 1
WithinLimit(count, limit) == count <= limit

\* ------------------------------------------------------------ POST /mcp
IdleMReq ==
  [pc |-> "idle", method |-> "", tenant |-> "", window |-> 0, gen |-> 0, count |-> 0,
   admitted_by |-> "", status |-> 0, code |-> NoError, hdr |-> NoHeader,
   headers |-> {}, retry_after |-> 0]

\* rl.window.Seconds() of the window NewRateLimiter sets, time.Minute
WindowSeconds == 60

\* the header every writer of a response sets before WriteHeader
JSONHeaders == {<<"Content-Type", "application/json">>}

\* sendResponse and AuthMiddleware.sendError: headers, status, encoded response
Respond(req, code, status) ==
  [req EXCEPT !.pc = "done", !.count = 0, !.code = code, !.status = status,
              !.headers = JSONHeaders]

\* RateLimiter.sendError: the response carries the window in error.data.retry_after
RateLimiter_sendError(req, code) ==
  [Respond(req, code, 429) EXCEPT !.retry_after = WindowSeconds]

\* mutant: OptionalHandler treats a token it cannot validate as no token
mcp_Receive_IgnoresInvalidToken(m, hdr, method) ==
  /\ mreq[m].pc = "idle"
  /\ LET v == ValidateToken(hdr, mcpNow)
     IN mreq' = [mreq EXCEPT ![m] =
          IF ~hdr.present \/ ~v.ok
            THEN [@ EXCEPT !.pc = "handle", !.method = method, !.hdr = hdr,
                           !.admitted_by = "no_tenant"]
          ELSE [@ EXCEPT !.pc = "incr", !.method = method, !.hdr = hdr,
                         !.tenant = v.tenant_id, !.window = mcpNow \div TicksPerWindow]]
  /\ UNCHANGED <<mcpNow, dbUser, counters, docs, lastOp>>
  /\ UNCHANGED <<taskVars, limitVars, lockVars>>

\* OptionalHandler, then RateLimiter.Handler up to the key of checkLimit
mcp_Receive(m, hdr, method) ==
  /\ mreq[m].pc = "idle"
  /\ LET v == ValidateToken(hdr, mcpNow)
     IN mreq' = [mreq EXCEPT ![m] =
          IF ~hdr.present
            THEN [@ EXCEPT !.pc = "handle", !.method = method, !.hdr = hdr,
                           !.admitted_by = "no_tenant"]
          ELSE IF ~v.ok
            THEN Respond([@ EXCEPT !.method = method, !.hdr = hdr],
                         AuthenticationRequired, 401)
          ELSE [@ EXCEPT !.pc = "incr", !.method = method, !.hdr = hdr,
                         !.tenant = v.tenant_id, !.window = mcpNow \div TicksPerWindow]]
  /\ UNCHANGED <<mcpNow, dbUser, counters, docs, lastOp>>
  /\ UNCHANGED <<taskVars, limitVars, lockVars>>

\* AuthMiddleware.Handler (every request needs a token), then
\* RateLimiter.Handler up to the key of checkLimit
mcp_ReceiveMandatory(m, hdr, method) ==
  /\ mreq[m].pc = "idle"
  /\ LET v == ValidateToken(hdr, mcpNow)
     IN mreq' = [mreq EXCEPT ![m] =
          IF ~hdr.present \/ ~v.ok
            THEN Respond([@ EXCEPT !.method = method, !.hdr = hdr],
                         AuthenticationRequired, 401)
          ELSE [@ EXCEPT !.pc = "incr", !.method = method, !.hdr = hdr,
                         !.tenant = v.tenant_id, !.window = mcpNow \div TicksPerWindow]]
  /\ UNCHANGED <<mcpNow, dbUser, counters, docs, lastOp>>
  /\ UNCHANGED <<taskVars, limitVars, lockVars>>

\* mutant: checkLimit compares with count < limit
Decide_RejectsAtLimit(req, count, gen) ==
  IF count < DefaultLimit
    THEN [req EXCEPT !.pc = "handle", !.count = 0, !.gen = gen, !.admitted_by = "count"]
    ELSE RateLimiter_sendError([req EXCEPT !.gen = gen], RateLimitExceeded)

\* RateLimiter.Handler after checkLimit has returned (allowed, nil)
Decide(req, count, gen) ==
  IF WithinLimit(count, DefaultLimit)
    THEN [req EXCEPT !.pc = "handle", !.count = 0, !.gen = gen, !.admitted_by = "count"]
    ELSE RateLimiter_sendError([req EXCEPT !.gen = gen], RateLimitExceeded)

\* mutant: the key leaves out the tenant, one counter per window
checkLimit_Incr_SharedKey(m, redisOK) ==
  /\ mreq[m].pc = "incr"
  /\ LET k == <<"A", mreq[m].window>>
         c == Incr(counters[k])
     IN IF ~redisOK
          THEN /\ mreq' = [mreq EXCEPT ![m] =
                     [@ EXCEPT !.pc = "handle", !.admitted_by = "fail_open"]]
               /\ UNCHANGED counters
          ELSE /\ counters' = [counters EXCEPT ![k] = c]
               /\ mreq' = [mreq EXCEPT ![m] =
                     IF c.count = 1
                       THEN [@ EXCEPT !.pc = "expire", !.count = 1, !.gen = c.gen]
                       ELSE Decide(@, c.count, c.gen)]
  /\ UNCHANGED <<mcpNow, dbUser, docs, lastOp>>
  /\ UNCHANGED <<taskVars, limitVars, lockVars>>

\* mutant: an error of rl.redis.Incr is answered with an internal error
checkLimit_Incr_FailsClosed(m, redisOK) ==
  /\ mreq[m].pc = "incr"
  /\ LET k == <<mreq[m].tenant, mreq[m].window>>
         c == Incr(counters[k])
     IN IF ~redisOK
          THEN /\ mreq' = [mreq EXCEPT ![m] = Respond(@, InternalError, 500)]
               /\ UNCHANGED counters
          ELSE /\ counters' = [counters EXCEPT ![k] = c]
               /\ mreq' = [mreq EXCEPT ![m] =
                     IF c.count = 1
                       THEN [@ EXCEPT !.pc = "expire", !.count = 1, !.gen = c.gen]
                       ELSE Decide(@, c.count, c.gen)]
  /\ UNCHANGED <<mcpNow, dbUser, docs, lastOp>>
  /\ UNCHANGED <<taskVars, limitVars, lockVars>>

\* checkLimit: rl.redis.Incr; on an error the handler lets the request through
checkLimit_Incr(m, redisOK) ==
  /\ mreq[m].pc = "incr"
  /\ LET k == <<mreq[m].tenant, mreq[m].window>>
         c == Incr(counters[k])
     IN IF ~redisOK
          THEN /\ mreq' = [mreq EXCEPT ![m] =
                     [@ EXCEPT !.pc = "handle", !.admitted_by = "fail_open"]]
               /\ UNCHANGED counters
          ELSE /\ counters' = [counters EXCEPT ![k] = c]
               /\ mreq' = [mreq EXCEPT ![m] =
                     IF c.count = 1
                       THEN [@ EXCEPT !.pc = "expire", !.count = 1, !.gen = c.gen]
                       ELSE Decide(@, c.count, c.gen)]
  /\ UNCHANGED <<mcpNow, dbUser, docs, lastOp>>
  /\ UNCHANGED <<taskVars, limitVars, lockVars>>

\* checkLimit: rl.redis.Expire on the first request; its result is not looked at
checkLimit_Expire(m, redisOK) ==
  /\ mreq[m].pc = "expire"
  /\ LET k == <<mreq[m].tenant, mreq[m].window>>
     IN counters' = [counters EXCEPT ![k] =
          IF redisOK THEN Expire(@, mcpNow, TicksPerWindow) ELSE @]
  /\ mreq' = [mreq EXCEPT ![m] = Decide(@, @.count, @.gen)]
  /\ UNCHANGED <<mcpNow, dbUser, docs, lastOp>>
  /\ UNCHANGED <<taskVars, limitVars, lockVars>>

\* ------------------------------------------------------- document store
NoDoc == [exists |-> FALSE, tenant_id |-> "", rev |-> 0]

DBUsers == {"mcp_user", "app_user"}

\* mcp_user is the POSTGRES_USER superuser; app_user is created NOBYPASSRLS
BypassesRLS(user) == user = "mcp_user"

\* DB.BeginTx: pool.Begin, then SET LOCAL app.current_tenant_id
BeginTx(tenantID) == [current_tenant_id |-> tenantID]

\* tenant_isolation_policy, USING: the rows a statement of the transaction sees
Visible(tx) ==
  {d \in DocIds : docs[d].exists
                  /\ (BypassesRLS(dbUser) \/ docs[d].tenant_id = tx.current_tenant_id)}

\* tenant_isolation_policy, WITH CHECK: the rows the transaction may store
CheckPasses(tx, tenantID) ==
  BypassesRLS(dbUser) \/ tenantID = tx.current_tenant_id

Rows(ids) == {<<d, docs[d].tenant_id>> : d \in ids}

NoOp == [name |-> "", tenant |-> "", asked |-> {}, returned |-> {}, modified |-> {}]

\* DB.GetDocument: SELECT ... WHERE id = $1
GetDocument(tenantID, docID) ==
  LET rows == Visible(BeginTx(tenantID)) \cap {docID}
  IN [err |-> rows = {},
      op |-> [name |-> "GetDocument", tenant |-> tenantID, asked |-> Rows({docID}),
              returned |-> Rows(rows), modified |-> {}]]

\* DB.ListDocuments: SELECT ... ORDER BY created_at DESC LIMIT $1 OFFSET $2
ListDocuments(tenantID) ==
  LET rows == Visible(BeginTx(tenantID))
  IN [err |-> FALSE,
      op |-> [name |-> "ListDocuments", tenant |-> tenantID, asked |-> Rows(DocIds),
              returned |-> Rows(rows), modified |-> {}]]

\* DB.SearchDocuments: the visible rows the text query matches
SearchDocuments(tenantID, matching) ==
  LET rows == Visible(BeginTx(tenantID)) \cap matching
  IN [err |-> FALSE,
      op |-> [name |-> "SearchDocuments", tenant |-> tenantID, asked |-> Rows(matching),
              returned |-> Rows(rows), modified |-> {}]]

\* DB.SimpleHybridSearch: the visible rows the text or the vector query matches
SimpleHybridSearch(tenantID, matching) ==
  LET rows == Visible(BeginTx(tenantID)) \cap matching
  IN [err |-> FALSE,
      op |-> [name |-> "SimpleHybridSearch", tenant |-> tenantID, asked |-> Rows(matching),
              returned |-> Rows(rows), modified |-> {}]]

\* mutant: the tools go to the store without looking for the tenant id
Execute_SkipsTenantCheck(name, tenantID, docID, matching) ==
  IF name \notin Tools
    THEN [err |-> TRUE, op |-> lastOp]
    ELSE CASE name = "retrieve_document" -> GetDocument(tenantID, docID)
           [] name = "list_documents" -> ListDocuments(tenantID)
           [] name = "search_documents" -> SearchDocuments(tenantID, matching)
           [] name = "hybrid_search" -> SimpleHybridSearch(tenantID, matching)

\* Registry.Execute and the tools' Execute: every tool starts with ExtractTenantID
Execute(name, tenantID, docID, matching) ==
  IF name \notin Tools \/ tenantID = ""
    THEN [err |-> TRUE, op |-> lastOp]
    ELSE CASE name = "retrieve_document" -> GetDocument(tenantID, docID)
           [] name = "list_documents" -> ListDocuments(tenantID)
           [] name = "search_documents" -> SearchDocuments(tenantID, matching)
           [] name = "hybrid_search" -> SimpleHybridSearch(tenantID, matching)

\* MCPHandler.ServeHTTP: handleRequest and sendResponse
mcp_Handle(m, name, docID) ==
  /\ mreq[m].pc = "handle"
  /\ mreq[m].method = MethodToolsCall \/ (name = "no_such_tool" /\ docID = "d1")
  /\ LET r == Execute(name, mreq[m].tenant, docID, DocIds)
         code == CASE mreq[m].method = MethodInitialize -> NoError
                   [] mreq[m].method = MethodToolsList -> NoError
                   [] mreq[m].method = MethodToolsCall ->
                        IF r.err THEN InternalError ELSE NoError
                   [] OTHER -> MethodNotFound
     IN /\ mreq' = [mreq EXCEPT ![m] = Respond(@, code, HTTPStatus(code))]
        /\ lastOp' = IF mreq[m].method = MethodToolsCall THEN r.op ELSE lastOp
  /\ UNCHANGED <<mcpNow, dbUser, counters, docs>>
  /\ UNCHANGED <<taskVars, limitVars, lockVars>>

\* MCPHandler.sendResponse on a response that carries the given code
sendResponse(m, code) ==
  /\ mreq[m].pc = "handle"
  /\ mreq' = [mreq EXCEPT ![m] = Respond(@, code, HTTPStatus(code))]
  /\ UNCHANGED <<mcpNow, dbUser, counters, docs, lastOp>>
  /\ UNCHANGED <<taskVars, limitVars, lockVars>>

\* DB.InsertDocument: INSERT ... VALUES (tenantID, ...)
InsertDocument(tenantID, docID) ==
  /\ ~docs[docID].exists
  /\ docs[docID].rev = 0
  /\ LET ok == CheckPasses(BeginTx(tenantID), tenantID)
         row == [exists |-> TRUE, tenant_id |-> tenantID, rev |-> 0]
     IN /\ docs' = IF ok THEN [docs EXCEPT ![docID] = row] ELSE docs
        /\ lastOp' = [name |-> "InsertDocument", tenant |-> tenantID, asked |-> {},
                      returned |-> {},
                      modified |-> IF ok THEN {<<docID, tenantID>>} ELSE {}]
  /\ UNCHANGED <<mcpNow, dbUser, counters, mreq>>
  /\ UNCHANGED <<taskVars, limitVars, lockVars>>

\* DB.GetDocument, DB.ListDocuments, DB.SearchDocuments, DB.SimpleHybridSearch
ReadDocuments(tenantID, name, docID, matching) ==
  /\ name \in Tools
  /\ name = "retrieve_document" \/ docID = "d1"
  /\ name \in {"search_documents", "hybrid_search"} \/ matching = DocIds
  /\ lastOp' = Execute(name, tenantID, docID, matching).op
  /\ UNCHANGED <<mcpNow, dbUser, counters, docs, mreq>>
  /\ UNCHANGED <<taskVars, limitVars, lockVars>>

\* DB.UpdateDocument: UPDATE documents SET ... WHERE id = $5
UpdateDocument(tenantID, docID) ==
  /\ docs[docID].rev < MaxRev
  /\ LET rows == Visible(BeginTx(tenantID)) \cap {docID}
     IN /\ docs' = [d \in DocIds |->
                      IF d \in rows THEN [docs[d] EXCEPT !.rev = @ + 1] ELSE docs[d]]
        /\ lastOp' = [name |-> "UpdateDocument", tenant |-> tenantID,
                      asked |-> Rows({docID}), returned |-> {}, modified |-> Rows(rows)]
  /\ UNCHANGED <<mcpNow, dbUser, counters, mreq>>
  /\ UNCHANGED <<taskVars, limitVars, lockVars>>

\* DB.DeleteDocument: DELETE FROM documents WHERE id = $1
DeleteDocument(tenantID, docID) ==
  /\ LET rows == Visible(BeginTx(tenantID)) \cap {docID}
     IN /\ docs' = [d \in DocIds |->
                      IF d \in rows THEN [docs[d] EXCEPT !.exists = FALSE] ELSE docs[d]]
        /\ lastOp' = [name |-> "DeleteDocument", tenant |-> tenantID,
                      asked |-> Rows({docID}), returned |-> {}, modified |-> Rows(rows)]
  /\ UNCHANGED <<mcpNow, dbUser, counters, mreq>>
  /\ UNCHANGED <<taskVars, limitVars, lockVars>>

\* a tick of the Retrieval Service clock; the counter store drops expired keys
MCPTick ==
  /\ mcpNow < MaxNow
  /\ mcpNow' = mcpNow + 1
  /\ counters' = [k \in Tenants \X Windows |-> Purge(counters[k], mcpNow + 1)]
  /\ UNCHANGED <<dbUser, docs, mreq, lastOp>>
  /\ UNCHANGED <<taskVars, limitVars, lockVars>>

\* the sample documents of init-db.sql, all of the first tenant, and a free id
StartupDocs ==
  [d \in DocIds |->
     CASE d = "d1" -> [exists |-> TRUE, tenant_id |-> "A", rev |-> 0]
       [] d = "d2" -> [exists |-> TRUE, tenant_id |-> "A", rev |-> 0]
       [] OTHER -> NoDoc]

MCPInit ==
  /\ mcpNow = 0
  /\ dbUser \in DBUsers
  /\ counters = [k \in Tenants \X Windows |-> NoCounter]
  /\ docs = StartupDocs
  /\ mreq = [m \in MReqs |-> IdleMReq]
  /\ lastOp = NoOp

\* ------------------------------------------------------ limit parameters
NoListing == [op |-> "", limit |-> 0, used |-> 0, returned |-> 0, panicked |-> FALSE]

\* the limits a caller sends
LimitInputs == {-1, 0, 1, 50, 51, 100, 101}

\* the offsets a caller sends
OffsetInputs == {-1, 0, 1}

\* ListTool.Execute: "Set defaults"
ListTool_Limit(limit) ==
  LET l == IF limit <= 0 THEN 20 ELSE limit
  IN IF l > 100 THEN 100 ELSE l

\* SearchTool.Execute: "Validate parameters"
SearchTool_Limit(limit) ==
  LET l == IF limit <= 0 THEN 10 ELSE limit
  IN IF l > 100 THEN 100 ELSE l

\* HybridSearchTool.Execute: "Validate parameters"
HybridSearchTool_Limit(limit) ==
  LET l == IF limit <= 0 THEN 10 ELSE limit
  IN IF l > 50 THEN 50 ELSE l

Min(a, b) == IF a < b THEN a ELSE b

\* a tool called with a limit: the limit handed to the database, and the rows
\* the LIMIT clause lets through
tool_Execute(name, tenantID, limit) ==
  /\ name \in {"list_documents", "search_documents", "hybrid_search"}
  /\ LET used == CASE name = "list_documents" -> ListTool_Limit(limit)
                   [] name = "search_documents" -> SearchTool_Limit(limit)
                   [] name = "hybrid_search" -> HybridSearchTool_Limit(limit)
         rows == Visible(BeginTx(tenantID))
     IN listed' = [op |-> name, limit |-> limit, used |-> used,
                   returned |-> Min(Cardinality(rows), used), panicked |-> FALSE]
  /\ UNCHANGED <<taskVars, mcpVars, lockVars>>

\* handleListTasks with ?limit=&offset=, and MemoryStore.List: tasks[start:end]
\* panics when end < start or start < 0
handleListTasks(hasLimit, limitArg, offset) ==
  /\ hasLimit \/ limitArg = 0
  /\ LET limit == IF hasLimit THEN limitArg ELSE 100
         n == Cardinality({t \in TaskIds : Exists(t)})
         start == offset
         end == Min(start + limit, n)
     IN listed' =
          IF start > n
            THEN [op |-> "GET /tasks", limit |-> limitArg, used |-> limit, returned |-> 0,
                  panicked |-> FALSE]
          ELSE IF start < 0 \/ end < start
            THEN [op |-> "GET /tasks", limit |-> limitArg, used |-> limit, returned |-> 0,
                  panicked |-> TRUE]
          ELSE [op |-> "GET /tasks", limit |-> limitArg, used |-> limit,
                returned |-> end - start, panicked |-> FALSE]
  /\ UNCHANGED <<taskVars, mcpVars, lockVars>>

\* ------------------------------------------------------------ specification
TaskInit ==
  /\ clock = 1
  /\ tasks = [t \in TaskIds |-> NoTask]
  /\ idSucceeds = [t \in TaskIds |-> TRUE]
  /\ subscribers = [t \in {} |-> <<>>]
  /\ chanBuf = [s \in Subs |-> <<>>]
  /\ chanClosed = [s \in Subs |-> FALSE]
  /\ budgets = StartupBudgets
  /\ creq = [r \in CreateReqs |-> IdleCreate]
  /\ cancel = [c \in Cancels |-> IdleCancel]
  /\ proc = [p \in Procs |-> IdleProc]
  /\ sse = [s \in Subs |-> IdleSSE]
  /\ published = [t \in TaskIds |-> <<>>]
  /\ transitions = [t \in TaskIds |-> <<>>]
  /\ allowedSum = [u \in Users |-> 0]
  /\ cycle = [u \in Users |-> 0]

CreateNext ==
  \/ \E r \in CreateReqs, u \in Users, a \in AgentIds, bodyOK \in BOOLEAN :
       handleCreateTask_Reserve(r, u, a, "search", bodyOK)
  \/ \E r \in CreateReqs, succ \in BOOLEAN : handleCreateTask_Create(r, succ)

BudgetNext ==
  \/ \E u \in Users, limit \in 0..MaxLimit : SetBudget(u, limit)
  \/ \E u \in Users : ResetBudget(u)
  \/ \E u \in Users, cost \in 0..MaxCost : CheckAndUpdateCall(u, cost)
  \/ CreateNext

\* the users whose budgets change over time: one with a budget at startup,
\* one without
ManagerUsers == {"u1", "u2"}

\* the budget manager over time, with POST /tasks up to its budget check
ManagerNext ==
  \/ \E u \in ManagerUsers, limit \in 0..MaxLimit : SetBudget(u, limit)
  \/ \E u \in ManagerUsers : ResetBudget(u)
  \/ \E u \in ManagerUsers, cost \in Costs : CheckAndUpdateCall(u, cost)
  \/ \E r \in CreateReqs, u \in ManagerUsers :
       handleCreateTask_Reserve(r, u, "agent-1", "search", TRUE)
  \/ Tick

ProcessorNext ==
  \/ processPendingTasks
  \/ \E p \in Procs : processTask_Running(p)
  \/ \E p \in Procs : processTask_PublishRunning(p)
  \/ \E p \in Procs : processTask_Finish(p)
  \/ \E p \in Procs : processTask_PublishFinal(p)

TaskNext ==
  \/ CreateNext
  \/ \E c \in Cancels, t \in TaskIds : handleCancelTask_Get(c, t)
  \/ \E c \in Cancels : handleCancelTask_Cancel(c)
  \/ \E c \in Cancels : handleCancelTask_Publish(c)
  \/ ProcessorNext
  \/ Tick

StreamNext ==
  \/ CreateNext
  \/ \E c \in StreamCancels, t \in TaskIds : handleCancelTask_Get(c, t)
  \/ \E c \in StreamCancels : handleCancelTask_Cancel(c)
  \/ \E c \in StreamCancels : handleCancelTask_Publish(c)
  \/ ProcessorNext
  \/ \E s \in StreamSubs, t \in TaskIds, f \in BOOLEAN : handleTaskEvents_Subscribe(s, t, f)
  \/ \E s \in StreamSubs : handleTaskEvents_Flusher(s)
  \/ \E s \in StreamSubs : handleTaskEvents_Receive(s)
  \/ \E s \in StreamSubs : ClientDisconnect(s)
  \/ \E s \in StreamSubs : handleTaskEvents_CtxDone(s)
  \/ \E s \in StreamSubs : handleTaskEvents_Unsubscribe(s)
  \/ Tick

\* one SSE connection, with DELETE and direct PublishEvent calls as publishers
StreamLiveNext ==
  \/ CreateNext
  \/ \E c \in StreamCancels, t \in TaskIds : handleCancelTask_Get(c, t)
  \/ \E c \in StreamCancels : handleCancelTask_Cancel(c)
  \/ \E c \in StreamCancels : handleCancelTask_Publish(c)
  \/ \E t \in TaskIds : PublishEventCall(t, TaskStateRunning)
  \/ \E s \in StreamSubs, t \in TaskIds, f \in BOOLEAN : handleTaskEvents_Subscribe(s, t, f)
  \/ \E s \in StreamSubs : handleTaskEvents_Flusher(s)
  \/ \E s \in StreamSubs : handleTaskEvents_Receive(s)
  \/ \E s \in StreamSubs : ClientDisconnect(s)
  \/ \E s \in StreamSubs : handleTaskEvents_CtxDone(s)
  \/ \E s \in StreamSubs : handleTaskEvents_Unsubscribe(s)

\* the store's publish/subscribe API with several SSE connections on a task
FanoutNext ==
  \/ \E r \in CreateReqs : handleCreateTask_Reserve(r, "u1", "agent-1", "search", TRUE)
  \/ \E r \in CreateReqs : handleCreateTask_Create(r, TRUE)
  \/ \E t \in TaskIds : PublishEventCall(t, TaskStateRunning)
  \/ \E s \in Subs, t \in TaskIds : handleTaskEvents_Subscribe(s, t, TRUE)
  \/ \E s \in Subs : handleTaskEvents_Flusher(s)
  \/ \E s \in Subs : handleTaskEvents_Receive(s)
  \/ \E s \in Subs : ClientDisconnect(s)
  \/ \E s \in Subs : handleTaskEvents_CtxDone(s)
  \/ \E s \in Subs : handleTaskEvents_Unsubscribe(s)

MCPNext ==
  \/ \E m \in DispatchReqs, hdr \in AuthHeaders, method \in Methods :
       mcp_Receive(m, hdr, method)
  \/ \E m \in DispatchReqs, redisOK \in BOOLEAN : checkLimit_Incr(m, redisOK)
  \/ \E m \in DispatchReqs, redisOK \in BOOLEAN : checkLimit_Expire(m, redisOK)
  \/ \E m \in DispatchReqs, name \in ToolNames, d \in DocIds : mcp_Handle(m, name, d)
  \/ MCPTick

\* one request with any header, through either authentication middleware
AuthNext ==
  \/ \E m \in AuthReqs, hdr \in Tokens \cup {NoHeader}, method \in Methods :
       mcp_Receive(m, hdr, method)
  \/ \E m \in AuthReqs, hdr \in Tokens \cup {NoHeader}, method \in Methods :
       mcp_ReceiveMandatory(m, hdr, method)
  \/ \E m \in AuthReqs, redisOK \in BOOLEAN : checkLimit_Incr(m, redisOK)
  \/ \E m \in AuthReqs, redisOK \in BOOLEAN : checkLimit_Expire(m, redisOK)
  \/ \E m \in AuthReqs, name \in ToolNames, d \in DocIds : mcp_Handle(m, name, d)
  \/ MCPTick

LimiterNext ==
  \/ \E m \in MReqs, hdr \in {NoHeader, SignedToken("A"), SignedToken("B")} :
       mcp_Receive(m, hdr, MethodToolsList)
  \/ \E m \in MReqs, redisOK \in BOOLEAN : checkLimit_Incr(m, redisOK)
  \/ \E m \in MReqs, redisOK \in BOOLEAN : checkLimit_Expire(m, redisOK)
  \/ \E m \in MReqs : mcp_Handle(m, "no_such_tool", "d1")
  \/ MCPTick

\* every writer of a JSON-RPC response within one window: the authentication
\* middleware, the rate limiter, and sendResponse with a response of any code
ResponseNext ==
  \/ \E m \in MReqs,
          hdr \in {NoHeader, SignedToken("A"), [SignedToken("A") EXCEPT !.sig_ok = FALSE]} :
       mcp_Receive(m, hdr, MethodToolsCall)
  \/ \E m \in MReqs, redisOK \in BOOLEAN : checkLimit_Incr(m, redisOK)
  \/ \E m \in MReqs, redisOK \in BOOLEAN : checkLimit_Expire(m, redisOK)
  \/ \E m \in MReqs, code \in Codes : sendResponse(m, code)

\* the calls that take a limit, over a task store and a document store with
\* some records
LimitsNext ==
  \/ \E r \in CreateReqs : handleCreateTask_Reserve(r, "u1", "agent-1", "search", TRUE)
  \/ \E r \in CreateReqs : handleCreateTask_Create(r, TRUE)
  \/ \E name \in Tools, t \in Tenants, limit \in LimitInputs : tool_Execute(name, t, limit)
  \/ \E hasLimit \in BOOLEAN, limit \in LimitInputs, offset \in OffsetInputs :
       handleListTasks(hasLimit, limit, offset)

\* POST, DELETE and the processor, one memory access a step
AccessNext ==
  \/ CreateNext
  \/ \E c \in Cancels, t \in TaskIds : handleCancelTask_Get(c, t)
  \/ \E c \in Cancels : handleCancelTask_Write(c)
  \/ \E c \in Cancels : handleCancelTask_Update(c)
  \/ \E c \in Cancels : handleCancelTask_Publish(c)
  \/ processPendingTasks
  \/ \E p \in Procs : processTask_WriteRunning(p)
  \/ \E p \in Procs : processTask_UpdateRunning(p)
  \/ \E p \in Procs : processTask_PublishRunning(p)
  \/ \E p \in Procs : processTask_WriteFinal(p)
  \/ \E p \in Procs : processTask_UpdateFinal(p)
  \/ \E p \in Procs : processTask_PublishFinal(p)
  \/ Tick

\* POST /tasks with any agent and capability, over budgets that change
CreateAnyNext ==
  \/ \E r \in CreateReqs, u \in Users, a \in AgentIds, cap \in RequestedCapabilities,
          bodyOK \in BOOLEAN :
       handleCreateTask_Reserve(r, u, a, cap, bodyOK)
  \/ \E r \in CreateReqs, succ \in BOOLEAN : handleCreateTask_Create(r, succ)
  \/ \E u \in ManagerUsers, limit \in 0..MaxLimit : SetBudget(u, limit)
  \/ Tick

\* PublishEvent calls against SSE connections that come and go; Subscribe and
\* Unsubscribe wait for the write lock
PublishNext ==
  \/ \E r \in CreateReqs : handleCreateTask_Reserve(r, "u1", "agent-1", "search", TRUE)
  \/ \E r \in CreateReqs : handleCreateTask_Create(r, TRUE)
  \/ \E q \in Publishers, t \in TaskIds : PublishEvent_RLock(q, t)
  \/ \E q \in Publishers : PublishEvent_Send(q)
  \/ \E q \in Publishers : PublishEvent_RUnlock(q)
  \/ \E s \in Subs, t \in TaskIds : handleTaskEvents_SubscribeLocked(s, t)
  \/ \E s \in Subs : handleTaskEvents_Flusher(s)
  \/ \E s \in Subs : handleTaskEvents_Receive(s)
  \/ \E s \in Subs : ClientDisconnect(s)
  \/ \E s \in Subs : handleTaskEvents_CtxDone(s)
  \/ \E s \in Subs : handleTaskEvents_UnsubscribeLocked(s)

StoreNext ==
  \/ \E t \in Tenants, d \in DocIds : InsertDocument(t, d)
  \/ \E t \in Tenants, name \in Tools, d \in DocIds, matching \in SUBSET DocIds :
       ReadDocuments(t, name, d, matching)
  \/ \E t \in Tenants, d \in DocIds : UpdateDocument(t, d)
  \/ \E t \in Tenants, d \in DocIds : DeleteDocument(t, d)

vars == <<taskVars, mcpVars, limitVars, lockVars>>
LockInit == rlocked = {} /\ pub = [q \in Publishers |-> IdlePub]
Init == TaskInit /\ MCPInit /\ listed = NoListing /\ LockInit
Next == TaskNext
Spec == Init /\ [][Next]_vars
SpecStream == Init /\ [][StreamNext]_vars

\* the processor's ticker keeps firing and every processTask goroutine keeps
\* being scheduled
ProcessorFairness ==
  /\ WF_vars(processPendingTasks)
  /\ \A p \in Procs :
       /\ WF_vars(processTask_Running(p))
       /\ WF_vars(processTask_PublishRunning(p))
       /\ WF_vars(processTask_Finish(p))
       /\ WF_vars(processTask_PublishFinal(p))
SpecLive == Init /\ [][Next]_vars /\ ProcessorFairness

\* every goroutine serving an SSE connection keeps being scheduled, and a
\* select with a ready case takes a ready case
StreamFairness ==
  \A s \in StreamSubs :
    /\ WF_vars(handleTaskEvents_Flusher(s))
    /\ WF_vars(handleTaskEvents_CtxDone(s))
    /\ WF_vars(handleTaskEvents_Unsubscribe(s))
SpecStreamLive == Init /\ [][StreamLiveNext]_vars /\ StreamFairness
SpecBudget == Init /\ [][BudgetNext]_vars
SpecManager == Init /\ [][ManagerNext]_vars
SpecMCP == Init /\ [][MCPNext]_vars
SpecLimiter == Init /\ [][LimiterNext]_vars
SpecAuth == Init /\ [][AuthNext]_vars

\* the rate limiter with a counter store that answers every command
HealthyNext ==
  \/ \E m \in MReqs, hdr \in {NoHeader, SignedToken("A"), SignedToken("B")} :
       mcp_Receive(m, hdr, MethodToolsList)
  \/ \E m \in MReqs : checkLimit_Incr(m, TRUE)
  \/ \E m \in MReqs : checkLimit_Expire(m, TRUE)
  \/ \E m \in MReqs : mcp_Handle(m, "no_such_tool", "d1")
  \/ MCPTick
SpecHealthy == Init /\ [][HealthyNext]_vars
SpecStore == Init /\ [][StoreNext]_vars
SpecResponse == Init /\ [][ResponseNext]_vars
SpecLimits == Init /\ [][LimitsNext]_vars
SpecAccess == Init /\ [][AccessNext]_vars
SpecCreate == Init /\ [][CreateAnyNext]_vars
SpecPublish == Init /\ [][PublishNext]_vars
SpecFanout == Init /\ [][FanoutNext]_vars

\* ======================================================================
\* Properties
\* ======================================================================
States(events) == [k \in DOMAIN events |-> events[k].state]
Targets(trans) == [k \in DOMAIN trans |-> trans[k][2]]
Count(seq, x) == Cardinality({k \in DOMAIN seq : seq[k] = x})

\* a handler that has read or written task t and has not answered yet
InFlight(t) ==
  \/ \E c \in Cancels : cancel[c].task = t /\ cancel[c].pc \in {"cancel", "publish"}
  \/ \E p \in Procs : proc[p].task = t /\ proc[p].pc \notin {"idle", "done"}

\* C1: once a task is completed, failed or cancelled, no field of its
\* record changes in any later step.
C1_TerminalTaskNeverChanges ==
  [][\A t \in TaskIds : IsTerminal(tasks[t].state) => tasks'[t] = tasks[t]]_vars

\* C2: every state change applied to a stored task is one of the five
\* transitions of the published table; nothing else is ever applied.
C2_OnlyLegalTransitionsApplied ==
  \A t \in TaskIds : \A k \in DOMAIN transitions[t] :
    transitions[t][k][2] \in validTransitions[transitions[t][k][1]]

C8_ExactlyOneTerminalEvent ==
  \A t \in TaskIds :
    (IsTerminal(tasks[t].state) /\ ~InFlight(t))
      => Count(States(published[t]), tasks[t].state) = 1

\* C9: a POST /tasks answered 402 has no task record in the store.
C9_DeniedRequestHasNoTask ==
  \A r \in CreateReqs : creq[r].status = 402 => ~Exists(r)

C9_Witness ==
  \E r \in CreateReqs : creq[r].pc = "done" /\ creq[r].status = 402

\* what subscriber s has been handed so far: the events it has read followed
\* by the events still waiting in its channel
Seen(s) == sse[s].received \o States(chanBuf[s])

\* seen is a run of consecutive entries of walk
IsSegment(seen, walk) ==
  \E i \in 0..Len(walk) :
    \A k \in DOMAIN seen : i + k <= Len(walk) /\ seen[k] = walk[i + k]

\* C7: for a consumer subscribed since before the task's first transition,
\* the received states continue a walk of the state machine that starts at
\* pending: each one is a legal successor of the state before it.
C7_ReceivedStatesFormValidWalk ==
  \A s \in Subs :
    sse[s].from_start =>
      \A k \in DOMAIN sse[s].received :
        sse[s].received[k] \in
          validTransitions[IF k = 1 THEN TaskStatePending ELSE sse[s].received[k - 1]]

\* C10: a subscriber is handed the events of its task in the order in which
\* the state transitions were applied to the task.
C10_EventsInTransitionOrder ==
  \A s \in Subs :
    sse[s].pc \in {"flusher", "loop", "unsubscribe"}
      => IsSegment(Seen(s), Targets(transitions[sse[s].task]))

\* the requests of tenant T whose counter key was the one of window w
OfKey(T, w) == {m \in MReqs : mreq[m].tenant = T /\ mreq[m].window = w}

\* the requests the limiter has passed on to the next handler
Admitted == {m \in MReqs : mreq[m].admitted_by \in {"count", "fail_open"}}

\* the requests passed on because their increment stayed within the limit
AdmittedByCount(g) == {m \in MReqs : mreq[m].admitted_by = "count" /\ mreq[m].gen = g}

C5_OnlyInitializeWithoutPrincipal ==
  \A m \in MReqs :
    (mreq[m].pc = "done" /\ mreq[m].tenant = "" /\ mreq[m].method # MethodInitialize)
      => (mreq[m].code = AuthenticationRequired /\ mreq[m].status = 401)

\* C6: a storage operation done for a request of tenant T returns and
\* modifies only rows whose tenant_id is T.
C6_TenantIsolation ==
  \A row \in lastOp.returned \cup lastOp.modified : row[2] = lastOp.tenant

C12_CancelOnTerminalTaskChangesNothing ==
  [][\A c \in Cancels :
       LET t == cancel'[c].task IN
       (cancel'[c] # cancel[c] /\ cancel[c].pc \in {"idle", "cancel"}
          /\ Exists(t) /\ IsTerminal(tasks[t].state))
         => /\ cancel'[c].pc = "done" /\ cancel'[c].status = 409
            /\ tasks'[t] = tasks[t]
            /\ published'[t] = published[t]]_vars

\* C13: an SSE handler that has subscribed and whose client context is
\* cancelled (or whose response writer cannot stream) eventually exits, and
\* from then on its channel is not in the task's subscriber list.
C13_SubscribedHandlerExitsAndUnsubscribes ==
  \A s \in StreamSubs :
    (sse[s].pc \in {"flusher", "loop", "unsubscribe"} /\ (sse[s].ctx_done \/ ~sse[s].flusher))
      ~> [](sse[s].pc = "done" /\ s \notin Range(Lookup(subscribers, sse[s].task)))

\* a handler that streamed an event, saw its context cancelled and has exited
C13_Witness ==
  \E s \in StreamSubs :
    /\ sse[s].pc = "done" /\ sse[s].ctx_done /\ sse[s].status = 200
    /\ sse[s].received # <<>>
    /\ s \notin Range(Lookup(subscribers, sse[s].task))

\* C14: a request whose response writer cannot flush is answered 500 and its
\* channel is never in any task's subscriber list.
C14_NoSubscriptionWithoutFlusher ==
  \A s \in Subs :
    (sse[s].pc # "idle" /\ ~sse[s].flusher)
      => /\ \A t \in TaskIds : s \notin Range(Lookup(subscribers, t))
         /\ sse[s].pc = "done" => sse[s].status \in {404, 500}

\* C15: an Unsubscribe of channel s takes exactly s out of its task's list
\* and closes it; every other channel stays registered where it was and
\* open; and the map never keeps a key whose list is empty.
C15_UnsubscribeRemovesExactlyTheChannel ==
  [][/\ \A s \in Subs :
          (~chanClosed[s] /\ chanClosed'[s]) =>
            /\ \A t \in TaskIds :
                 Lookup(subscribers', t) = SelectSeq(Lookup(subscribers, t), LAMBDA c : c # s)
            /\ s \in Range(Lookup(subscribers, sse[s].task))
            /\ \A c \in Subs \ {s} : chanClosed'[c] = chanClosed[c]
     /\ \A t \in DOMAIN subscribers' : subscribers'[t] # <<>>]_vars

\* one channel has been unsubscribed and closed while another subscriber of
\* the same task is still registered and open
C15_Witness ==
  \E a \in Subs, b \in Subs :
    /\ a # b /\ sse[a].task = sse[b].task
    /\ chanClosed[a] /\ a \notin Range(Lookup(subscribers, sse[a].task))
    /\ ~chanClosed[b] /\ b \in Range(Lookup(subscribers, sse[b].task))

C17_SubscriberSeesRunningThenCompleted ==
  \A s \in StreamSubs :
    LET t == sse[s].task IN
    (/\ sse[s].from_start
     /\ sse[s].pc \in {"flusher", "loop"}
     /\ tasks[t].state = TaskStateCompleted
     /\ ~InFlight(t))
      => /\ Seen(s) = <<TaskStateRunning, TaskStateCompleted>>
         /\ \A i, j \in DOMAIN published[t] :
              i <= j => published[t][i].timestamp <= published[t][j].timestamp

\* C18: handling a request whose context carries no tenant id executes no
\* storage operation: the store's last operation and the documents are left
\* as they were, a tools/call is answered with an error, and no operation
\* the store has executed was done for the empty tenant.
C18_NoStorageOperationWithoutPrincipal ==
  [][/\ \A m \in MReqs :
          (mreq[m].pc = "handle" /\ mreq[m].tenant = "" /\ mreq'[m].pc = "done")
            => /\ lastOp' = lastOp
               /\ docs' = docs
               /\ mreq[m].method = MethodToolsCall => mreq'[m].code = InternalError
     /\ lastOp' # NoOp => lastOp'.tenant # ""]_vars

\* a tools/call that arrived without a principal has been answered
C18_Witness ==
  \E m \in MReqs :
    /\ mreq[m].pc = "done"
    /\ mreq[m].method = MethodToolsCall
    /\ mreq[m].tenant = ""
    /\ mreq[m].admitted_by # ""
    /\ mreq[m].code = InternalError

\* what the claim asks of a token at time t: an RSA signature that verifies,
\* the configured issuer and audience, not expired, a tenant_id
Acceptable(tok, t) ==
  /\ tok.alg \in {"RS256", "RS384", "RS512"}
  /\ tok.sig_ok
  /\ tok.iss = Issuer
  /\ Audience \in tok.aud
  /\ ~(tok.has_exp /\ tok.exp < t)
  /\ tok.tenant_id # ""

InvalidToken(tok, t) ==
  /\ tok.present
  /\ \/ ~tok.sig_ok
     \/ tok.iss # Issuer
     \/ Audience \notin tok.aud
     \/ tok.has_exp /\ tok.exp < t

\* C20: a request with a token that has a bad signature, the wrong issuer or
\* audience, or is expired, is answered 401 with authentication-required by
\* either middleware, for every method, and is never passed on: it reaches
\* neither the rate limiter nor the handler, and the answer is final.
C20_InvalidTokenIs401AndNotPassedOn ==
  [][\A m \in MReqs :
       /\ (mreq[m].pc = "idle" /\ mreq'[m].pc # "idle"
             /\ InvalidToken(mreq'[m].hdr, mcpNow))
            => /\ mreq'[m].pc = "done"
               /\ mreq'[m].status = 401
               /\ mreq'[m].code = AuthenticationRequired
               /\ mreq'[m].admitted_by = ""
               /\ counters' = counters
               /\ lastOp' = lastOp
       /\ (mreq[m].pc = "done" /\ mreq[m].code = AuthenticationRequired)
            => mreq'[m] = mreq[m]]_vars

\* a tools/call with a well-signed token for another audience was refused
C20_Witness ==
  \E m \in MReqs :
    /\ mreq[m].pc = "done"
    /\ mreq[m].method = MethodToolsCall
    /\ mreq[m].hdr.sig_ok
    /\ mreq[m].hdr.iss = Issuer
    /\ mreq[m].hdr.aud = {"other-audience"}
    /\ mreq[m].status = 401

\* C21: once no rate-limit check stands between its increment and its
\* EXPIRE, every counter key that exists has a time to live.
C21_CounterKeyHasTTL ==
  \A k \in Tenants \X Windows :
    (/\ counters[k].count > 0
     /\ ~\E m \in MReqs : mreq[m].pc = "expire" /\ <<mreq[m].tenant, mreq[m].window>> = k)
      => counters[k].has_ttl

\* C22: a rate-limit check whose counter-store command fails (the step
\* leaves the counters as they were) passes the request on to the handler,
\* and a request passed on after a failed increment is answered by the
\* handler without an error.
C22_StoreFailureAdmits ==
  [][\A m \in MReqs :
       /\ (mreq[m].pc \in {"incr", "expire"} /\ mreq'[m].pc # mreq[m].pc
             /\ counters' = counters)
            => mreq'[m].pc = "handle"
       /\ (mreq[m].admitted_by = "fail_open" /\ mreq'[m].pc = "done")
            => (mreq'[m].status = 200 /\ mreq'[m].code = NoError)]_vars

\* a request let through after a failed increment was served while its
\* tenant's counter for the window stood at the limit
C22_Witness ==
  \E m \in MReqs :
    /\ mreq[m].pc = "done"
    /\ mreq[m].admitted_by = "fail_open"
    /\ mreq[m].status = 200
    /\ counters[<<mreq[m].tenant, mreq[m].window>>].count >= DefaultLimit

\* the requests of tenant T and window w whose increment has been done
Incremented(T, w) == {m \in OfKey(T, w) : mreq[m].pc \notin {"idle", "incr"}}

\* C23 as stated, with a counter store that never fails: the request that
\* is the n-th of its tenant and window to be counted is passed on when
\* n <= limit, and otherwise is answered 429 with rate-limit-exceeded and
\* never reaches the handler.
C23_FirstNAdmittedRestRejected ==
  [][\A m \in MReqs :
       /\ (mreq[m].pc = "incr" /\ mreq'[m].pc # "incr") =>
            LET n == Cardinality(Incremented(mreq[m].tenant, mreq[m].window)) + 1
            IN IF n <= DefaultLimit
                 THEN mreq'[m].pc \in {"expire", "handle"}
                 ELSE /\ mreq'[m].pc = "done"
                      /\ mreq'[m].status = 429
                      /\ mreq'[m].code = RateLimitExceeded
                      /\ mreq'[m].admitted_by = ""
       /\ (mreq[m].pc = "expire" /\ mreq'[m].pc # "expire") => mreq'[m].pc = "handle"
       /\ (mreq[m].pc = "done" /\ mreq[m].code = RateLimitExceeded)
            => mreq'[m] = mreq[m]]_vars

\* the requests of tenant T and window w counted on life g of the counter key
IncrementedOn(T, w, g) == {m \in Incremented(T, w) : mreq[m].gen = g}

\* C23, amended: with a counter store that never fails, the request that is
\* the n-th to be counted on one life of its tenant's key for the window
\* (from the key's creation until its TTL runs out) is passed on when
\* n <= limit, and otherwise is answered 429 with rate-limit-exceeded and
\* never reaches the handler.
C23_FirstNOfKeyLifeAdmittedRestRejected ==
  [][\A m \in MReqs :
       /\ (mreq[m].pc = "incr" /\ mreq'[m].pc # "incr") =>
            LET k == <<mreq[m].tenant, mreq[m].window>>
                n == Cardinality(IncrementedOn(k[1], k[2], counters'[k].gen)) + 1
            IN IF n <= DefaultLimit
                 THEN mreq'[m].pc \in {"expire", "handle"}
                 ELSE /\ mreq'[m].pc = "done"
                      /\ mreq'[m].status = 429
                      /\ mreq'[m].code = RateLimitExceeded
                      /\ mreq'[m].admitted_by = ""
       /\ (mreq[m].pc = "expire" /\ mreq'[m].pc # "expire") => mreq'[m].pc = "handle"
       /\ (mreq[m].pc = "done" /\ mreq[m].code = RateLimitExceeded)
            => mreq'[m] = mreq[m]]_vars

\* three requests of one tenant counted on the same key life have all been
\* answered: two were served, the third got 429
C23_Witness ==
  \E T \in Tenants, w \in Windows, g \in 1..MaxMReq :
    /\ IncrementedOn(T, w, g) = MReqs
    /\ \A m \in MReqs : mreq[m].pc = "done"
    /\ Cardinality({m \in MReqs : mreq[m].status = 200}) = DefaultLimit
    /\ Cardinality({m \in MReqs : mreq[m].status = 429}) = 1

\* C24: a step of a request of one tenant leaves the counters of every
\* other tenant as they were, and a request is rejected only when more
\* than the limit of its own tenant's requests were counted on its key.
C24_CountersArePerTenant ==
  [][\A m \in MReqs :
       /\ mreq'[m] # mreq[m] =>
            \A k \in Tenants \X Windows :
              k[1] # mreq'[m].tenant => counters'[k] = counters[k]
       /\ mreq'[m].code = RateLimitExceeded =>
            Cardinality({x \in MReqs : /\ mreq'[x].tenant = mreq'[m].tenant
                                       /\ mreq'[x].window = mreq'[m].window
                                       /\ mreq'[x].gen = mreq'[m].gen
                                       /\ mreq'[x].pc \notin {"idle", "incr"}})
              > DefaultLimit]_vars

\* tenant A has used up its limit in a window, and a request of tenant B
\* counted after that in the same window was passed on as B's first
C24_Witness ==
  \E w \in Windows, m \in MReqs :
    /\ counters[<<"A", w>>].count = DefaultLimit
    /\ Cardinality({x \in OfKey("A", w) : mreq[x].admitted_by = "count"}) = DefaultLimit
    /\ counters[<<"B", w>>].count = 1
    /\ m \in OfKey("B", w)
    /\ mreq[m].admitted_by = "count"

\* C25: a CheckAndUpdate call that returns denied hands back the budgets as
\* they were (spend, limit and reset_at of every user), for every user and
\* cost in every state, and a POST /tasks answered 402 leaves them unchanged.
C25_DeniedCallChangesNothing ==
  [][/\ \A u \in Users, cost \in Costs :
          LET r == CheckAndUpdate(budgets, u, cost)
          IN ~r.allowed => r.budgets = budgets
     /\ \A r \in CreateReqs :
          (creq[r].pc = "idle" /\ creq'[r].status = 402) => budgets' = budgets]_vars

\* a POST /tasks was answered 402 for a user who has spent something and
\* whose reset_at was set after startup
C25_Witness ==
  \E r \in CreateReqs, u \in Users :
    /\ creq[r].status = 402
    /\ budgets[u].exists
    /\ budgets[u].current_spend > 0
    /\ budgets[u].reset_at > 1 + MonthTicks
    /\ ~CheckAndUpdate(budgets, u, EstimatedCost).allowed

C27_CompletedAtSetOnEnteringTerminal ==
  [][\A t \in TaskIds :
       /\ tasks'[t].state \in {TaskStatePending, TaskStateRunning}
            => tasks'[t].completed_at = 0
       /\ (~IsTerminal(tasks[t].state) /\ IsTerminal(tasks'[t].state))
            => tasks'[t].completed_at = clock
       /\ tasks'[t].completed_at # tasks[t].completed_at
            => (~IsTerminal(tasks[t].state) /\ IsTerminal(tasks'[t].state))]_vars

\* C28: every published event that carries the terminal state its task is
\* in has the task's completed_at as its timestamp.
C28_TerminalEventTimestampIsCompletedAt ==
  \A t \in TaskIds : \A k \in DOMAIN published[t] :
    (IsTerminal(tasks[t].state) /\ published[t][k].state = tasks[t].state)
      => published[t][k].timestamp = tasks[t].completed_at

\* C29: while a user's budget stays in the same cycle (no ResetBudget in
\* the step), no step of the budget manager lowers the user's current_spend.
C29_SpendMonotonicWithinCycle ==
  [][\A u \in Users :
       (budgets[u].exists /\ budgets'[u].exists /\ cycle'[u] = cycle[u])
         => budgets'[u].current_spend >= budgets[u].current_spend]_vars

\* what the claim says a record_actual_cost(u, estimate, actual) call does
ReplacesReservation(u, estimate, actual) ==
  budgets' = [budgets EXCEPT ![u].current_spend = @ - estimate + actual]

\* C30: for every user whose spend holds a reservation of the estimated
\* cost and every actual cost that differs from it, the budget manager has
\* an operation whose effect is current_spend - estimate + actual.
C30_ManagerOffersRecordActualCost ==
  \A u \in ManagerUsers, actual \in 0..MaxCost :
    (/\ budgets[u].exists
     /\ budgets[u].current_spend >= EstimatedCost
     /\ actual # EstimatedCost)
      => ENABLED (ManagerNext /\ ReplacesReservation(u, EstimatedCost, actual))

C32_CrossTenantRetrieveIsNotFound ==
  [][\A m \in MReqs, d \in DocIds :
       (/\ mcp_Handle(m, "retrieve_document", d)
        /\ mreq[m].method = MethodToolsCall
        /\ mreq[m].tenant # ""
        /\ docs[d].exists
        /\ docs[d].tenant_id # mreq[m].tenant)
       => /\ mreq'[m].code = ResourceNotFound
          /\ mreq'[m].status = 404]_vars

\* ----------------------------------------------------------------------
\* C33: every rate-limit denial is answered with HTTP 429 and a Retry-After
\* header whose value is the window length in seconds.
C33_DenialCarriesRetryAfterHeader ==
  \A m \in MReqs :
    (mreq[m].pc = "done" /\ mreq[m].code = RateLimitExceeded)
      => /\ mreq[m].status = 429
         /\ <<"Retry-After", "60">> \in mreq[m].headers

\* ----------------------------------------------------------------------
\* C34: every operation that takes a limit (hybrid_search, search_documents,
\* list_documents, GET /tasks) uses its default for limit 0, never uses a
\* negative limit (it uses 0 or its default instead), and uses its maximum
\* for a limit above the maximum.
C34_LimitIsClamped ==
  listed.op # "" =>
    LET default == CASE listed.op = "list_documents" -> 20
                     [] listed.op = "search_documents" -> 10
                     [] listed.op = "hybrid_search" -> 10
                     [] listed.op = "GET /tasks" -> 100
        maximum == CASE listed.op = "list_documents" -> 100
                     [] listed.op = "search_documents" -> 100
                     [] listed.op = "hybrid_search" -> 50
                     [] listed.op = "GET /tasks" -> 100
    IN /\ ~listed.panicked
       /\ listed.limit = 0 => listed.used = default
       /\ listed.limit < 0 => listed.used \in {0, default}
       /\ listed.limit > maximum => listed.used = maximum

\* ----------------------------------------------------------------------
\* C35: each budget reset sets current_spend to zero and moves reset_at
\* exactly one month forward from its previous value.
C35_ResetAdvancesOneMonth ==
  [][\A u \in Users :
       cycle'[u] = cycle[u] + 1
         => /\ budgets'[u].current_spend = 0
            /\ budgets'[u].reset_at = budgets[u].reset_at + MonthTicks]_vars

\* ----------------------------------------------------------------------
\* C36: the fields of the task that Get returns for an id change only as
\* the effect of an Update executed under the store's write lock.
C36_TaskChangesOnlyInUpdate ==
  [][\A t \in TaskIds :
       (Exists(t) /\ tasks'[t] # tasks[t])
         => \/ \E c \in Cancels : cancel[c].task = t /\ handleCancelTask_Update(c)
            \/ \E p \in Procs : proc[p].task = t /\ processTask_UpdateRunning(p)
            \/ \E p \in Procs : proc[p].task = t /\ processTask_UpdateFinal(p)]_vars

\* ----------------------------------------------------------------------
\* C37: POST /tasks validates the agent and the capability before it
\* reserves budget: a request that names a capability the agent's card does
\* not declare is rejected, the user's current_spend stays as it is and no
\* task is created.
C37_UndeclaredCapabilityIsRejected ==
  [][\A r \in CreateReqs, u \in Users, a \in Agents, cap \in RequestedCapabilities :
       (handleCreateTask_Reserve(r, u, a, cap, TRUE) /\ cap \notin CardCapabilities)
         => /\ creq'[r].pc = "done"
            /\ creq'[r].status \in 400..499
            /\ budgets'[u].current_spend = budgets[u].current_spend]_vars

\* ----------------------------------------------------------------------
\* C38: under every interleaving of PublishEvent with Subscribe and
\* Unsubscribe, an SSE client going away while a publisher publishes
\* included, no event is sent to a channel that Unsubscribe has closed.
C38_NoSendOnClosedChannel ==
  /\ \A q \in Publishers : ~pub[q].sent_closed
  /\ \A q \in Publishers :
       pub[q].pc = "send" => \A i \in DOMAIN pub[q].list : ~chanClosed[pub[q].list[i]]

\* a publisher is in its loop with the channel of a connection whose client
\* has gone away and whose handler is about to unsubscribe
C38_Witness ==
  \E q \in Publishers, s \in Subs :
    /\ pub[q].pc = "send"
    /\ s \in Range(pub[q].list)
    /\ sse[s].pc = "unsubscribe"
    /\ sse[s].ctx_done

\* ----------------------------------------------------------------------
\* C39: each task is executed at most once: the processor never has two
\* processTask executions for the same task id, also when the task is still
\* seen as pending at a later scan.
C39_AtMostOneExecutionPerTask ==
  \A p1, p2 \in Procs :
    (p1 # p2 /\ proc[p1].pc # "idle" /\ proc[p2].pc # "idle")
      => proc[p1].task # proc[p2].task

\* ----------------------------------------------------------------------
\* C40: a token that carries no expiry claim is never accepted by the token
\* validator.
C40_TokenWithoutExpiryIsRejected ==
  \A m \in MReqs :
    (mreq[m].pc # "idle" /\ mreq[m].hdr.present /\ ~mreq[m].hdr.has_exp)
      => /\ ~ValidateToken(mreq[m].hdr, mcpNow).ok
         /\ mreq[m].tenant = ""
         /\ mreq[m].pc = "done"
         /\ mreq[m].code = AuthenticationRequired

====
